---- MODULE Spec2Model ----
(***************************************************************************)
(* Model of ms-nexus-tools' chunking core:                                 *)
(*   lib/chunking.py  ImageBounds, ChunkBounds, MemoryInfo.calculate,      *)
(*                    _chunk, chunk_image_dimensions, the two layouts,     *)
(*                    calculate_chunks, process_chunk_on_disk,             *)
(*                    process_chunk_in_memory                              *)
(*   api/ion.py       queue_consumer, process_chunks_on_disk,              *)
(*                    process_chunks_in_memory, process                    *)
(*                                                                         *)
(* Quantities the code holds as floating point gigabytes are held here as  *)
(* exact numbers of bytes (gigabytes times 2^30): total_gb is the byte     *)
(* count of the volume, a ceiling gb_max is a positive number of bytes,    *)
(* and a quotient such as max_chunk_gb = total_gb / chunk_count is the     *)
(* pair [num, den].  None is the empty sequence, a supplied ceiling b is   *)
(* the one-element sequence <<b>>.                                         *)
(* Where the code rounds a quotient of floats to an integer, or compares   *)
(* a rounded product, the rounding of the 53-bit binary64 arithmetic is    *)
(* computed from the integers (section "binary64 rounding").               *)
(***************************************************************************)
EXTENDS Integers, Sequences, FiniteSets, TLC

VARIABLES
    bounds,          \* ImageBounds read from the input file's metadata
    args,            \* ProcessArgs: chunk_count, max_memory, processors, on_disk,
                     \* use_subprocesses, do_spectra, do_images
    pc,              \* position of the coordinator (the caller of process / calculate_chunks)
    memory_info,     \* MemoryInfo returned by MemoryInfo.calculate
    spectra_chunks,  \* first list returned by calculate_chunks
    image_chunks,    \* second list returned by calculate_chunks
    grid,            \* a direct call of chunk_image_dimensions: arguments and result
    data_path,       \* the phase being executed: "spectra" or "images"
    queue,           \* the work queue: chunk positions (1-based) and STOP sentinels
    unfinished,      \* the queue's count of unfinished tasks (put but not task_done)
    workers,         \* per started consumer: its position ("idle" in queue.get(),
                     \* "working" in function(args), "task_done" before
                     \* queue.task_done(), "finished", "dead") and the item it holds
    files,           \* scratch directory: path -> payload of the chunk file
    out,             \* the two output volumes: data_path -> index -> value
    merge_i,         \* position of the merge loop (1-based index into chunk_args)
    failed,          \* work items <<data_path, position>> whose chunk function raised
    handed,          \* work items -> number of times handed to the chunk function
    writers,         \* data_path -> index -> work items that wrote this output element
    vds,             \* the datasets of vds.h5: the data_paths that have a virtual dataset
    stop_i           \* number of STOP sentinels put by the loop after the first join

vars == <<bounds, args, pc, memory_info, spectra_chunks, image_chunks, grid,
          data_path, queue, unfinished, workers, files, out, merge_i, failed,
          handed, writers, vds, stop_i>>

(***************************************************************************)
(* Bounds of the model.                                                    *)
(***************************************************************************)
\* largest volume in the planner specification, in elements
MaxElements == 20
\* largest requested minimum chunk count in the planner specification
MaxChunkMin == 6
\* largest memory ceiling, in bytes, in the planner specification
MaxCeiling == 10
\* largest worker count in the planner specification
MaxProcessors == 2
\* largest volume that is converted by a run, in elements
MaxRunElements == 6
\* largest requested chunk count (-k) of a run
MaxRunChunkMin == 4
\* largest worker count (-j) of a run
MaxWorkers == 2
\* largest number of chunk functions that raise in one run
MaxFailures == 1
\* the long image side, in pixels, of the volumes of the large-volume planner
\* specification
LargeExtent == 60
\* the memory ceilings, in bytes, of the large-volume planner specification are
\* this value and its double
LargeCeiling == 30000
\* largest volume that is converted by a run with a memory ceiling, in elements
MaxBudgetElements == 4
\* largest memory ceiling of a run, in elements of 4 bytes
MaxRunCeiling == 4
\* largest requested chunk count (-k) of a run with a memory ceiling
MaxBudgetChunkMin == 2
\* largest volume handed directly to process_chunks_on_disk, in elements
MaxDirectElements == 4
\* largest requested chunk count of the layouts handed directly to
\* process_chunks_on_disk
MaxDirectChunkMin == 2
\* largest volume, in elements, of the runs with more than 10 chunks per phase
MaxLongElements == 12
\* largest width and height handed directly to chunk_image_dimensions
MaxGridExtent == 6
\* largest chunks_per_image handed directly to chunk_image_dimensions
MaxGridChunks == 40

(***************************************************************************)
(* Arithmetic helpers (math.floor, math.ceil, math.sqrt on exact values).  *)
(***************************************************************************)
Min(a, b) == IF a <= b THEN a ELSE b

Max(a, b) == IF a >= b THEN a ELSE b

\* math.floor(n / d) for n >= 0, d > 0
FloorDiv(n, d) == n \div d

\* math.ceil(n / d) for n >= 0, d > 0
CeilDiv(n, d) == (n + d - 1) \div d

\* math.ceil(math.sqrt(n)) for n >= 1
CeilSqrt(n) == CHOOSE d \in 1..n : d * d >= n /\ (d - 1) * (d - 1) < n

(***************************************************************************)
(* binary64 rounding.  The floats of the code are quotients n / d of small *)
(* integers.  fl(x) is x rounded to 53 significant bits, to nearest, ties  *)
(* to even.  Scaling by 2^-30 (gigabytes) does not change a rounding.      *)
(***************************************************************************)
RECURSIVE Pow2(_)
Pow2(n) ==
    IF n = 0 THEN 1
    ELSE LET h == Pow2(n \div 2) IN IF n % 2 = 0 THEN h * h ELSE 2 * h * h

RECURSIVE ExponentUp(_, _, _)
ExponentUp(n, d, e) == IF Pow2(e + 1) * d <= n THEN ExponentUp(n, d, e + 1) ELSE e

RECURSIVE ExponentDown(_, _, _)
ExponentDown(n, d, e) == IF n * Pow2(-e) < d THEN ExponentDown(n, d, e - 1) ELSE e

\* the binary exponent of n / d: the e with 2^e <= n / d < 2^(e + 1)
float_exponent(n, d) == IF n >= d THEN ExponentUp(n, d, 0) ELSE ExponentDown(n, d, 0)

RECURSIVE Pow2Mod(_, _)
\* 2^k modulo m
Pow2Mod(k, m) ==
    IF k = 0 THEN 1 % m
    ELSE LET h == Pow2Mod(k \div 2, m)
         IN  IF k % 2 = 0 THEN (h * h) % m ELSE (2 * ((h * h) % m)) % m

\* what n / d leaves after 53 significant bits, in units of 1 / d of the last bit:
\* 0 when fl(n / d) is exact, below d / 2 when it is rounded down, above when up
float_remainder(n, d) == ((n % d) * Pow2Mod(52 - float_exponent(n, d), d)) % d

\* x * 2^e > y and x * 2^e >= y for integers x, y and an exponent e of either sign
scaled_gt(x, e, y) == IF e >= 0 THEN x * Pow2(e) > y ELSE x > y * Pow2(-e)

scaled_ge(x, e, y) == IF e >= 0 THEN x * Pow2(e) >= y ELSE x >= y * Pow2(-e)

\* 1 when q is a power of two (the floats below q are spaced half as wide), else 0
below_power_of_two(q) == IF q = Pow2(float_exponent(q, 1)) THEN 1 ELSE 0

\* fl(a / fl(b / c)) against the integer q = a * c / b: 1 when the float is above q,
\* -1 when it is below, 0 when it is q.  fl(b / c) rounded down by r / c of its last
\* bit raises the quotient by the same relative amount, which is rounded away
\* unless it is at least half of q's last bit.
div_div_sign(a, b, c) ==
    LET q == (a * c) \div b
        r == float_remainder(b, c)
        e == float_exponent(b, c) - float_exponent(q, 1) + 1
    IN  IF r = 0 THEN 0
        ELSE IF 2 * r < c
        THEN IF scaled_ge(r * q, e, b) THEN 1 ELSE 0
        ELSE IF scaled_gt((c - r) * q, e + below_power_of_two(q), b) THEN -1 ELSE 0

\* math.ceil(a / (b / c)) for integers a, b, c >= 1
ceil_div_div(a, b, c) ==
    IF (a * c) % b # 0 THEN ((a * c) \div b) + 1
    ELSE ((a * c) \div b) + (IF div_div_sign(a, b, c) > 0 THEN 1 ELSE 0)

\* math.floor(a / (b / c)) for integers a, b, c >= 1
floor_div_div(a, b, c) ==
    IF (a * c) % b # 0 THEN (a * c) \div b
    ELSE ((a * c) \div b) - (IF div_div_sign(a, b, c) < 0 THEN 1 ELSE 0)

\* (a / c) * p > g in floats: the exact comparison, and on a * p = g * c the
\* rounding of fl(a / c) upwards when it survives the rounding of the product
div_mul_gt(a, c, p, g) ==
    IF a * p # g * c THEN a * p > g * c
    ELSE LET r == float_remainder(a, c)
         IN  /\ 2 * r > c
             /\ scaled_gt((c - r) * g,
                          float_exponent(a, c) - float_exponent(g, 1) + 1, a)

\* (a / c) * p < g in floats
div_mul_lt(a, c, p, g) ==
    IF a * p # g * c THEN a * p < g * c
    ELSE LET r == float_remainder(a, c)
         IN  /\ r > 0
             /\ 2 * r < c
             /\ scaled_gt(r * g,
                          float_exponent(a, c) - float_exponent(g, 1) + 1
                              + below_power_of_two(g), a)

\* math.ceil(n / ((w / wpc) * (h / hpc))) for a grid <<wpc, hpc>> in which one of
\* the two quotients is a whole number (chunk_image_dimensions leaves an axis
\* whole, or divides both by the same count): the exact quotient rounded up,
\* and 2 in place of 1 when the product of the floats falls below n
ceil_div_mul(n, w, wpc, h, hpc) ==
    LET below == IF w % wpc = 0 THEN div_mul_lt(h, hpc, w \div wpc, n)
                 ELSE IF h % hpc = 0 THEN div_mul_lt(w, wpc, h \div hpc, n)
                 ELSE FALSE
    IN  IF n * wpc * hpc = w * h
        THEN IF below THEN 2 ELSE 1
        ELSE CeilDiv(n * wpc * hpc, w * h)

None == <<>>

\* the outcome of a call in which an assert statement fails (no value is returned)
AssertionError == <<>>

\* the bytes of a gigabyte: approximate_size_gb divides by 1024 three times
GB == 1073741824

(***************************************************************************)
(* ImageBounds and ChunkBounds.                                            *)
(***************************************************************************)
ImageBounds(l, w, h, s) ==
    [layer_count |-> l, layer_width |-> w, layer_height |-> h, spectrum_length |-> s]

slice(a, b) == [start |-> a, stop |-> b]

ChunkBounds(layer, width, height, spectra) ==
    [layer |-> layer, width |-> width, height |-> height, spectra |-> spectra]

\* range(s.start, s.stop) as a set
slice_range(s) == s.start .. (s.stop - 1)

\* number of elements of a chunk: the product of the four extents
element_count(c) ==
    (c.layer.stop - c.layer.start) * (c.width.stop - c.width.start)
        * (c.height.stop - c.height.start) * (c.spectra.stop - c.spectra.start)

\* ChunkBounds.approximate_size_gb, in bytes (4 bytes per element)
approximate_size_gb(c) == element_count(c) * 4

\* the index set (layer, x, y, bin) a chunk addresses
Region(c) ==
    slice_range(c.layer) \X slice_range(c.width) \X slice_range(c.height)
        \X slice_range(c.spectra)

\* the index set of the whole volume
Volume(b) ==
    (0 .. b.layer_count - 1) \X (0 .. b.layer_width - 1) \X (0 .. b.layer_height - 1)
        \X (0 .. b.spectrum_length - 1)

(***************************************************************************)
(* MemoryInfo.calculate.                                                   *)
(***************************************************************************)
\* a bug variant: the ceiling is divided with math.floor instead of math.ceil
MemoryInfo_calculate_floor(chunk_count_min, gb_max, processors, b) ==
    LET total_gb == approximate_size_gb(ChunkBounds(slice(0, b.layer_count),
                        slice(0, b.layer_width), slice(0, b.layer_height),
                        slice(0, b.spectrum_length)))
        ccm == IF chunk_count_min <= 0 THEN 1 ELSE chunk_count_min
        chunk_count ==
            IF gb_max # None
            THEN IF div_mul_gt(total_gb, ccm, processors, gb_max[1])
                 THEN Max(1, floor_div_div(total_gb, gb_max[1], processors))
                 ELSE ccm
            ELSE ccm
    IN  IF processors < 1 \/ (gb_max # None /\ gb_max[1] <= 0) THEN AssertionError
        ELSE [total_gb |-> total_gb,
              max_chunk_gb |-> [num |-> total_gb, den |-> chunk_count],
              min_chunk_count |-> chunk_count]

\* a bug variant: the ceiling is not shared between the workers
MemoryInfo_calculate_one_worker(chunk_count_min, gb_max, processors, b) ==
    LET total_gb == approximate_size_gb(ChunkBounds(slice(0, b.layer_count),
                        slice(0, b.layer_width), slice(0, b.layer_height),
                        slice(0, b.spectrum_length)))
        ccm == IF chunk_count_min <= 0 THEN 1 ELSE chunk_count_min
        chunk_count ==
            IF gb_max # None
            THEN IF div_mul_gt(total_gb, ccm, processors, gb_max[1])
                 THEN CeilDiv(total_gb, gb_max[1])
                 ELSE ccm
            ELSE ccm
    IN  IF processors < 1 \/ (gb_max # None /\ gb_max[1] <= 0) THEN AssertionError
        ELSE [total_gb |-> total_gb,
              max_chunk_gb |-> [num |-> total_gb, den |-> chunk_count],
              min_chunk_count |-> chunk_count]

\* a bug variant: the assert on the worker count is off by one (processors >= 0)
MemoryInfo_calculate_zero_workers(chunk_count_min, gb_max, processors, b) ==
    LET total_gb == approximate_size_gb(ChunkBounds(slice(0, b.layer_count),
                        slice(0, b.layer_width), slice(0, b.layer_height),
                        slice(0, b.spectrum_length)))
        ccm == IF chunk_count_min <= 0 THEN 1 ELSE chunk_count_min
        chunk_count ==
            IF gb_max # None
            THEN IF div_mul_gt(total_gb, ccm, processors, gb_max[1])
                 THEN ceil_div_div(total_gb, gb_max[1], processors)
                 ELSE ccm
            ELSE ccm
    IN  IF processors < 0 \/ (gb_max # None /\ gb_max[1] <= 0) THEN AssertionError
        ELSE [total_gb |-> total_gb,
              max_chunk_gb |-> [num |-> total_gb, den |-> chunk_count],
              min_chunk_count |-> chunk_count]

\* a bug variant: the chunk size is the product, not the quotient, of the footprint
\* and the chunk count
MemoryInfo_calculate_times(chunk_count_min, gb_max, processors, b) ==
    LET total_gb == approximate_size_gb(ChunkBounds(slice(0, b.layer_count),
                        slice(0, b.layer_width), slice(0, b.layer_height),
                        slice(0, b.spectrum_length)))
        ccm == IF chunk_count_min <= 0 THEN 1 ELSE chunk_count_min
        chunk_count ==
            IF gb_max # None
            THEN IF div_mul_gt(total_gb, ccm, processors, gb_max[1])
                 THEN ceil_div_div(total_gb, gb_max[1], processors)
                 ELSE ccm
            ELSE ccm
    IN  IF processors < 1 \/ (gb_max # None /\ gb_max[1] <= 0) THEN AssertionError
        ELSE [total_gb |-> total_gb,
              max_chunk_gb |-> [num |-> total_gb * chunk_count, den |-> 1],
              min_chunk_count |-> chunk_count]

\* MemoryInfo.calculate; AssertionError when processors < 1 or gb_max <= 0.
\*   (chunk_gb * processors) > gb_max with chunk_gb = total_gb / chunk_count_min
\*   is div_mul_gt, math.ceil(total_gb / (gb_max / processors)) is ceil_div_div.
MemoryInfo_calculate(chunk_count_min, gb_max, processors, b) ==
    LET total_gb == approximate_size_gb(ChunkBounds(slice(0, b.layer_count),
                        slice(0, b.layer_width), slice(0, b.layer_height),
                        slice(0, b.spectrum_length)))
        ccm == IF chunk_count_min <= 0 THEN 1 ELSE chunk_count_min
        chunk_count ==
            IF gb_max # None
            THEN IF div_mul_gt(total_gb, ccm, processors, gb_max[1])
                 THEN ceil_div_div(total_gb, gb_max[1], processors)
                 ELSE ccm
            ELSE ccm
    IN  IF processors < 1 \/ (gb_max # None /\ gb_max[1] <= 0) THEN AssertionError
        ELSE [total_gb |-> total_gb,
              max_chunk_gb |-> [num |-> total_gb, den |-> chunk_count],
              min_chunk_count |-> chunk_count]

(***************************************************************************)
(* _chunk: the enumeration of the slabs, layer outermost, spectra          *)
(* innermost.                                                              *)
(***************************************************************************)
\* a bug variant: the last, shorter slab of an axis is left out
range_len_floor(bound, per_chunk) == FloorDiv(bound, per_chunk)

\* len(range(0, bound, per_chunk)) for per_chunk >= 1
range_len(bound, per_chunk) == CeilDiv(bound, per_chunk)

\* a bug variant: the last slab is not clamped to the bound
slab_unclamped(ii, per_chunk, bound) ==
    slice(ii * per_chunk, (ii + 1) * per_chunk)

\* a bug variant: the slab's end overshoots its neighbour's start by one
slab_overlapping(ii, per_chunk, bound) ==
    slice(ii * per_chunk, Min((ii + 1) * per_chunk + 1, bound))

\* the ii-th slab (0-based) of an axis: start = ii * per_chunk, the ii-th value of
\* range(0, bound, per_chunk), and end = min((ii + 1) * per_chunk, bound)
slab(ii, per_chunk, bound) ==
    slice(ii * per_chunk, Min((ii + 1) * per_chunk, bound))

\* a bug variant: the loops are nested the other way round, spectra outermost and
\* layers innermost
_chunk_reversed(b, layers_per_chunk, width_per_chunk, height_per_chunk, spectra_per_chunk) ==
    LET nl == range_len(b.layer_count, layers_per_chunk)
        nw == range_len(b.layer_width, width_per_chunk)
        nh == range_len(b.layer_height, height_per_chunk)
        ns == range_len(b.spectrum_length, spectra_per_chunk)
    IN  [k \in 1 .. (nl * nw * nh * ns) |->
            LET ll == (k - 1) \div (nh * nw * nl)
                kk == ((k - 1) \div (nw * nl)) % nh
                jj == ((k - 1) \div nl) % nw
                ii == (k - 1) % nl
            IN  ChunkBounds(slab(ii, layers_per_chunk, b.layer_count),
                            slab(jj, width_per_chunk, b.layer_width),
                            slab(kk, height_per_chunk, b.layer_height),
                            slab(ll, spectra_per_chunk, b.spectrum_length))]

\* the list the four nested loops append to, as a sequence: position k (1-based)
\* holds the chunk of loop counters (ii, jj, kk, ll), ll running fastest
_chunk(b, layers_per_chunk, width_per_chunk, height_per_chunk, spectra_per_chunk) ==
    LET nl == range_len(b.layer_count, layers_per_chunk)
        nw == range_len(b.layer_width, width_per_chunk)
        nh == range_len(b.layer_height, height_per_chunk)
        ns == range_len(b.spectrum_length, spectra_per_chunk)
    IN  [k \in 1 .. (nl * nw * nh * ns) |->
            LET ii == (k - 1) \div (nw * nh * ns)
                jj == ((k - 1) \div (nh * ns)) % nw
                kk == ((k - 1) \div ns) % nh
                ll == (k - 1) % ns
            IN  ChunkBounds(slab(ii, layers_per_chunk, b.layer_count),
                            slab(jj, width_per_chunk, b.layer_width),
                            slab(kk, height_per_chunk, b.layer_height),
                            slab(ll, spectra_per_chunk, b.spectrum_length))]

(***************************************************************************)
(* chunk_image_dimensions.  The result is <<width_per_chunk,               *)
(* height_per_chunk>>, or AssertionError when an assert fails.             *)
(*   math.floor(height / (chunks_per_image / width)) is floor_div_div      *)
(***************************************************************************)
\* a bug variant: the chunks per dimension are chunks_per_image, not its square
\* root rounded up
chunk_image_dimensions_no_sqrt(width, height, chunks_per_image) ==
    IF chunks_per_image > width * height THEN <<1, 1>>
    ELSE LET chunks_per_image_dimension == chunks_per_image
         IN  IF width < chunks_per_image_dimension
             THEN IF ~(height > width /\ height >= chunks_per_image_dimension)
                  THEN AssertionError
                  ELSE <<1, Max(1, floor_div_div(height, chunks_per_image, width))>>
             ELSE IF height < chunks_per_image_dimension
             THEN IF ~(width > height /\ width >= chunks_per_image_dimension)
                  THEN AssertionError
                  ELSE <<Max(1, floor_div_div(width, chunks_per_image, height)), 1>>
             ELSE IF ~(width >= chunks_per_image_dimension
                       /\ height >= chunks_per_image_dimension)
             THEN AssertionError
             ELSE <<FloorDiv(width, chunks_per_image_dimension),
                    FloorDiv(height, chunks_per_image_dimension)>>

\* a bug variant: the balanced branch rounds the per-axis sizes up
chunk_image_dimensions_ceil(width, height, chunks_per_image) ==
    IF chunks_per_image > width * height THEN <<1, 1>>
    ELSE LET chunks_per_image_dimension == CeilSqrt(chunks_per_image)
         IN  IF width < chunks_per_image_dimension
             THEN IF ~(height > width /\ height >= chunks_per_image_dimension)
                  THEN AssertionError
                  ELSE <<1, Max(1, floor_div_div(height, chunks_per_image, width))>>
             ELSE IF height < chunks_per_image_dimension
             THEN IF ~(width > height /\ width >= chunks_per_image_dimension)
                  THEN AssertionError
                  ELSE <<Max(1, floor_div_div(width, chunks_per_image, height)), 1>>
             ELSE <<CeilDiv(width, chunks_per_image_dimension),
                    CeilDiv(height, chunks_per_image_dimension)>>

\* a bug variant: more chunks requested than pixels leaves the image undivided
chunk_image_dimensions_whole(width, height, chunks_per_image) ==
    IF chunks_per_image > width * height THEN <<width, height>>
    ELSE LET chunks_per_image_dimension == CeilSqrt(chunks_per_image)
         IN  IF width < chunks_per_image_dimension
             THEN IF ~(height > width /\ height >= chunks_per_image_dimension)
                  THEN AssertionError
                  ELSE <<1, Max(1, floor_div_div(height, chunks_per_image, width))>>
             ELSE IF height < chunks_per_image_dimension
             THEN IF ~(width > height /\ width >= chunks_per_image_dimension)
                  THEN AssertionError
                  ELSE <<Max(1, floor_div_div(width, chunks_per_image, height)), 1>>
             ELSE <<FloorDiv(width, chunks_per_image_dimension),
                    FloorDiv(height, chunks_per_image_dimension)>>

chunk_image_dimensions(width, height, chunks_per_image) ==
    IF chunks_per_image > width * height THEN <<1, 1>>
    ELSE LET chunks_per_image_dimension == CeilSqrt(chunks_per_image)
         IN  IF width < chunks_per_image_dimension
             THEN IF ~(height > width /\ height >= chunks_per_image_dimension)
                  THEN AssertionError
                  ELSE <<1, Max(1, floor_div_div(height, chunks_per_image, width))>>
             ELSE IF height < chunks_per_image_dimension
             THEN IF ~(width > height /\ width >= chunks_per_image_dimension)
                  THEN AssertionError
                  ELSE <<Max(1, floor_div_div(width, chunks_per_image, height)), 1>>
             ELSE IF ~(width >= chunks_per_image_dimension
                       /\ height >= chunks_per_image_dimension)
             THEN AssertionError
             ELSE <<FloorDiv(width, chunks_per_image_dimension),
                    FloorDiv(height, chunks_per_image_dimension)>>

(***************************************************************************)
(* The two layouts.  A layout is the list of its chunks, or AssertionError *)
(* when chunk_image_dimensions raises.                                     *)
(***************************************************************************)
\* chunks_per_image = (width / width_per_chunk) * (height / height_per_chunk) is a
\* product of floats; math.ceil(chunks_per_layer / chunks_per_image) is ceil_div_mul
_chunk_images_then_spectra(b, chunks_per_layer, layers_per_chunk) ==
    LET dims == chunk_image_dimensions(b.layer_width, b.layer_height, chunks_per_layer)
    IN  IF dims = AssertionError THEN AssertionError
        ELSE LET width_per_chunk == dims[1]
                 height_per_chunk == dims[2]
                 chunks_per_spectrum ==
                     ceil_div_mul(chunks_per_layer, b.layer_width, width_per_chunk,
                                  b.layer_height, height_per_chunk)
                 spectra_per_chunk ==
                     Max(1, FloorDiv(b.spectrum_length, chunks_per_spectrum))
             IN  _chunk(b, layers_per_chunk, width_per_chunk, height_per_chunk,
                        spectra_per_chunk)

\* a bug variant: the spectrum is always cut into single bins
_chunk_spectra_then_images_single_bins(b, chunks_per_layer, layers_per_chunk) ==
    LET spectra_per_chunk == 1
        chunks_per_image ==
            CeilDiv(chunks_per_layer * spectra_per_chunk, b.spectrum_length)
        dims == chunk_image_dimensions(b.layer_width, b.layer_height, chunks_per_image)
    IN  IF dims = AssertionError THEN AssertionError
        ELSE _chunk(b, layers_per_chunk, dims[1], dims[2], spectra_per_chunk)

\* a bug variant: the image is left undivided
_chunk_spectra_then_images_undivided(b, chunks_per_layer, layers_per_chunk) ==
    LET spectra_per_chunk == Max(1, FloorDiv(b.spectrum_length, chunks_per_layer))
    IN  _chunk(b, layers_per_chunk, b.layer_width, b.layer_height, spectra_per_chunk)

\* chunks_per_spectrum = spectrum_length / spectra_per_chunk is a float;
\* math.ceil(chunks_per_layer / chunks_per_spectrum) is ceil_div_div
_chunk_spectra_then_images(b, chunks_per_layer, layers_per_chunk) ==
    LET spectra_per_chunk == Max(1, FloorDiv(b.spectrum_length, chunks_per_layer))
        chunks_per_image ==
            ceil_div_div(chunks_per_layer, b.spectrum_length, spectra_per_chunk)
        dims == chunk_image_dimensions(b.layer_width, b.layer_height, chunks_per_image)
    IN  IF dims = AssertionError THEN AssertionError
        ELSE _chunk(b, layers_per_chunk, dims[1], dims[2], spectra_per_chunk)

(***************************************************************************)
(* calculate_chunks: <<spectra_chunks, image_chunks, memory_info>>, a      *)
(* layout being AssertionError when building it raised.                    *)
(***************************************************************************)
\* a bug variant: the chunks per layer are rounded down instead of up
calculate_chunks_floor_per_layer(chunk_count_min, gb_max, processors, b) ==
    LET mi == MemoryInfo_calculate(chunk_count_min, gb_max, processors, b)
        few == mi.min_chunk_count < b.layer_count
        layers_per_chunk ==
            IF few THEN Max(1, FloorDiv(b.layer_count, mi.min_chunk_count)) ELSE 1
        chunks_per_layer ==
            IF few THEN 1 ELSE FloorDiv(mi.min_chunk_count, b.layer_count)
        spectra == _chunk_images_then_spectra(b, chunks_per_layer, layers_per_chunk)
        images == _chunk_spectra_then_images(b, chunks_per_layer, layers_per_chunk)
    IN  IF mi = AssertionError THEN AssertionError ELSE <<spectra, images, mi>>

\* a bug variant: the layers of a chunk are rounded up instead of down
calculate_chunks_ceil_layers(chunk_count_min, gb_max, processors, b) ==
    LET mi == MemoryInfo_calculate(chunk_count_min, gb_max, processors, b)
        few == mi.min_chunk_count < b.layer_count
        layers_per_chunk ==
            IF few THEN Max(1, CeilDiv(b.layer_count, mi.min_chunk_count)) ELSE 1
        chunks_per_layer ==
            IF few THEN 1 ELSE CeilDiv(mi.min_chunk_count, b.layer_count)
        spectra == _chunk_images_then_spectra(b, chunks_per_layer, layers_per_chunk)
        images == _chunk_spectra_then_images(b, chunks_per_layer, layers_per_chunk)
    IN  IF mi = AssertionError THEN AssertionError ELSE <<spectra, images, mi>>

calculate_chunks(chunk_count_min, gb_max, processors, b) ==
    LET mi == MemoryInfo_calculate(chunk_count_min, gb_max, processors, b)
        few == mi.min_chunk_count < b.layer_count
        layers_per_chunk ==
            IF few THEN Max(1, FloorDiv(b.layer_count, mi.min_chunk_count)) ELSE 1
        chunks_per_layer ==
            IF few THEN 1 ELSE CeilDiv(mi.min_chunk_count, b.layer_count)
        spectra == _chunk_images_then_spectra(b, chunks_per_layer, layers_per_chunk)
        images == _chunk_spectra_then_images(b, chunks_per_layer, layers_per_chunk)
    IN  IF mi = AssertionError THEN AssertionError ELSE <<spectra, images, mi>>

\* a call of calculate_chunks raises when MemoryInfo.calculate raised or when
\* chunk_image_dimensions raised while a layout was built
calculate_chunks_raised(r) ==
    r = AssertionError \/ r[1] = AssertionError \/ r[2] = AssertionError

(***************************************************************************)
(* The source volume and the state of a run that has not started.          *)
(***************************************************************************)
\* the element the read view returns at an index: distinct per index and never
\* the fill value 0 of a fresh output volume
Source(b, idx) ==
    1 + idx[4] + b.spectrum_length
            * (idx[3] + b.layer_height * (idx[2] + b.layer_width * idx[1]))

\* a fresh NXfield of the volume's shape: every element is the fill value
EmptyVolume(b) == [idx \in Volume(b) |-> 0]

NoWriters(b) == [idx \in Volume(b) |-> {}]

NoGrid == [width |-> 0, height |-> 0, chunks_per_image |-> 0, result |-> <<>>]

\* the ImageBounds, all four extents >= 1, of at most n elements
VolumesUpTo(n) ==
    {b \in [layer_count : 1 .. n, layer_width : 1 .. n, layer_height : 1 .. n,
            spectrum_length : 1 .. n] :
        b.layer_count * b.layer_width * b.layer_height * b.spectrum_length <= n}

\* no executor exists yet
ExecutorIdle ==
    /\ data_path = "spectra"
    /\ queue = <<>>
    /\ unfinished = 0
    /\ workers = <<>>
    /\ files = <<>>
    /\ out = <<>>
    /\ merge_i = 0
    /\ failed = {}
    /\ handed = <<>>
    /\ writers = <<>>
    /\ vds = {}
    /\ stop_i = 0

ExecutorUnchanged ==
    UNCHANGED <<data_path, queue, unfinished, workers, files, out, merge_i, failed,
                handed, writers, vds, stop_i>>

(***************************************************************************)
(* SpecGrid: direct calls of chunk_image_dimensions.                       *)
(***************************************************************************)
\* calls <<width, height, chunks_per_image>> in which the quotient of the narrow
\* branch, or the product of the quotients taken from its result, is a whole
\* number that the floats miss
RoundingGrids ==
    {<<3, 70, 14>>, <<70, 3, 14>>, <<7, 58, 58>>, <<58, 7, 58>>, <<7, 61, 61>>,
     <<61, 7, 61>>}

InitGrid ==
    /\ bounds = ImageBounds(1, 1, 1, 1)
    /\ args = [chunk_count |-> 1, max_memory |-> None, processors |-> 1,
               on_disk |-> FALSE, use_subprocesses |-> FALSE,
                do_spectra |-> TRUE, do_images |-> TRUE]
    /\ pc = "init"
    /\ memory_info = None
    /\ spectra_chunks = <<>>
    /\ image_chunks = <<>>
    /\ grid \in [width : 1 .. MaxGridExtent, height : 1 .. MaxGridExtent,
                 chunks_per_image : 1 .. MaxGridChunks, result : {<<>>}]
                \cup {[width |-> t[1], height |-> t[2], chunks_per_image |-> t[3],
                       result |-> <<>>] : t \in RoundingGrids}
    /\ ExecutorIdle

CallChunkImageDimensions ==
    /\ pc = "init"
    /\ LET r == chunk_image_dimensions(grid.width, grid.height, grid.chunks_per_image)
       IN  /\ grid' = [grid EXCEPT !.result = r]
           /\ pc' = IF r = AssertionError THEN "raised" ELSE "returned"
    /\ UNCHANGED <<bounds, args, memory_info, spectra_chunks, image_chunks>>
    /\ ExecutorUnchanged

NextGrid == CallChunkImageDimensions

SpecGrid == InitGrid /\ [][NextGrid]_vars

(***************************************************************************)
(* SpecPlan: calls of MemoryInfo.calculate and of calculate_chunks.        *)
(***************************************************************************)
\* calls of calculate_chunks in which a float is rounded across a whole number:
\* the chunk count of MemoryInfo.calculate (84 bytes, 5 workers, a ceiling of 28
\* or of 7 bytes), the grid solver's narrow branch (3 x 70 pixels, 14 chunks), the
\* chunks per spectrum (7 x 61 and 61 x 7 pixels, 61 chunks)
RoundingInputs ==
    {[bounds |-> ImageBounds(1, 1, 1, 21),
      args |-> [chunk_count |-> 1, max_memory |-> <<28>>, processors |-> 5,
                on_disk |-> FALSE, use_subprocesses |-> FALSE,
                do_spectra |-> TRUE, do_images |-> TRUE]],
     [bounds |-> ImageBounds(1, 1, 1, 21),
      args |-> [chunk_count |-> 1, max_memory |-> <<7>>, processors |-> 5,
                on_disk |-> FALSE, use_subprocesses |-> FALSE,
                do_spectra |-> TRUE, do_images |-> TRUE]],
     [bounds |-> ImageBounds(1, 3, 70, 2),
      args |-> [chunk_count |-> 14, max_memory |-> None, processors |-> 1,
                on_disk |-> FALSE, use_subprocesses |-> FALSE,
                do_spectra |-> TRUE, do_images |-> TRUE]],
     [bounds |-> ImageBounds(1, 7, 61, 2),
      args |-> [chunk_count |-> 61, max_memory |-> None, processors |-> 1,
                on_disk |-> FALSE, use_subprocesses |-> FALSE,
                do_spectra |-> TRUE, do_images |-> TRUE]],
     [bounds |-> ImageBounds(1, 61, 7, 2),
      args |-> [chunk_count |-> 61, max_memory |-> None, processors |-> 1,
                on_disk |-> FALSE, use_subprocesses |-> FALSE,
                do_spectra |-> TRUE, do_images |-> TRUE]]}

\* bounds and args are those of one of the calls of RoundingInputs
InitRounding == \E i \in RoundingInputs : bounds = i.bounds /\ args = i.args

InitPlan ==
    /\ \/ /\ bounds \in VolumesUpTo(MaxElements)
          /\ args \in [chunk_count : -1 .. MaxChunkMin,
                       max_memory : {None} \cup {<<g>> : g \in 0 .. MaxCeiling},
                       processors : 0 .. MaxProcessors,
                       on_disk : {FALSE}, use_subprocesses : {FALSE},
                       do_spectra : {TRUE}, do_images : {TRUE}]
       \/ InitRounding
    /\ pc = "init"
    /\ memory_info = None
    /\ spectra_chunks = <<>>
    /\ image_chunks = <<>>
    /\ grid = NoGrid
    /\ ExecutorIdle

CallMemoryInfoCalculate ==
    /\ pc = "init"
    /\ LET mi == MemoryInfo_calculate(args.chunk_count, args.max_memory,
                                      args.processors, bounds)
       IN  /\ memory_info' = mi
           /\ pc' = IF mi = AssertionError THEN "raised" ELSE "memory"
    /\ UNCHANGED <<bounds, args, spectra_chunks, image_chunks, grid>>
    /\ ExecutorUnchanged

CallCalculateChunks ==
    /\ pc = "init"
    /\ \E r \in {calculate_chunks(args.chunk_count, args.max_memory,
                                 args.processors, bounds)} :
           IF calculate_chunks_raised(r)
           THEN /\ pc' = "raised"
                /\ UNCHANGED <<memory_info, spectra_chunks, image_chunks>>
           ELSE /\ pc' = "planned"
                /\ spectra_chunks' = r[1]
                /\ image_chunks' = r[2]
                /\ memory_info' = r[3]
    /\ UNCHANGED <<bounds, args, grid>>
    /\ ExecutorUnchanged

NextPlan == CallMemoryInfoCalculate \/ CallCalculateChunks

SpecPlan == InitPlan /\ [][NextPlan]_vars

\* volumes with long image sides: layers and bins 1..3, width and height 1, 2 or
\* LargeExtent
LargeVolumes ==
    [layer_count : 1 .. 3, layer_width : {1, 2, LargeExtent},
     layer_height : {1, 2, LargeExtent}, spectrum_length : 1 .. 3]

InitPlanLarge ==
    /\ \/ /\ bounds \in LargeVolumes
          /\ args \in [chunk_count : -1 .. MaxChunkMin,
                       max_memory : {None, <<LargeCeiling>>, <<2 * LargeCeiling>>},
                       processors : 0 .. MaxProcessors,
                       on_disk : {FALSE}, use_subprocesses : {FALSE},
                       do_spectra : {TRUE}, do_images : {TRUE}]
       \/ InitRounding
    /\ pc = "init"
    /\ memory_info = None
    /\ spectra_chunks = <<>>
    /\ image_chunks = <<>>
    /\ grid = NoGrid
    /\ ExecutorIdle

\* the planner on volumes of up to 3 * LargeExtent^2 * 3 elements
SpecPlanLarge == InitPlanLarge /\ [][NextPlan]_vars

\* the volume of a small acquisition: 5 layers of 10 x 10 pixels, 100 bins
ScenarioBounds == ImageBounds(5, 10, 10, 100)

\* the volumes of up to ScenarioBounds' layers, with its image sides and spectrum
\* length or 1 in their place
ScenarioVolumes ==
    [layer_count : 1 .. ScenarioBounds.layer_count,
     layer_width : {1, ScenarioBounds.layer_width},
     layer_height : {1, ScenarioBounds.layer_height},
     spectrum_length : {1, ScenarioBounds.spectrum_length}]

\* the volume of one layer of 50 x 50 pixels, 1000 bins
CeilingScenarioBounds == ImageBounds(1, 50, 50, 1000)

\* a ceiling of 0.0005 GB, which is 536870.912 bytes, rounded down to whole bytes;
\* rounded up it is this value plus 1
CeilingScenarioFloor == 5 * (GB \div 10000)

InitPlanScenario ==
    /\ \/ /\ bounds \in ScenarioVolumes \cup {CeilingScenarioBounds}
          /\ args \in [chunk_count : -1 .. MaxChunkMin,
                       max_memory : {None, <<LargeCeiling>>, <<CeilingScenarioFloor>>,
                                     <<CeilingScenarioFloor + 1>>},
                       processors : 0 .. MaxProcessors,
                       on_disk : {FALSE}, use_subprocesses : {FALSE},
                       do_spectra : {TRUE}, do_images : {TRUE}]
       \/ InitRounding
    /\ pc = "init"
    /\ memory_info = None
    /\ spectra_chunks = <<>>
    /\ image_chunks = <<>>
    /\ grid = NoGrid
    /\ ExecutorIdle

\* the planner on ScenarioBounds and the volumes around it
SpecPlanScenario == InitPlanScenario /\ [][NextPlan]_vars

(***************************************************************************)
(* The executor: process, process_chunks_on_disk, process_chunks_in_memory, *)
(* queue_consumer and the two chunk functions.                             *)
(***************************************************************************)
\* the sentinel that ends a consumer's loop; chunk positions are 1, 2, ...
STOP == 0

DataPaths == {"spectra", "images"}

\* args.do_spectra for "spectra", args.do_images for "images": the part of the input
\* is processed (ProcessArgs, ion.py 86-95)
do_part(dp) == IF dp = "spectra" THEN args.do_spectra ELSE args.do_images

\* the chunk list handed to the executor for a data_path (process, lines 449-487)
ChunksOf(dp) == IF dp = "spectra" THEN spectra_chunks ELSE image_chunks

\* the characters str.format writes for the digits 0 .. 9
DigitChars == <<"0", "1", "2", "3", "4", "5", "6", "7", "8", "9">>

RECURSIVE format_int(_)
\* f"{n}" for n >= 0: the decimal digits of n, most significant first
format_int(n) ==
    IF n < 10 THEN <<DigitChars[n + 1]>>
    ELSE format_int(n \div 10) \o <<DigitChars[(n % 10) + 1]>>

\* a bug variant: the file name leaves out the data_path
hdf_out_path_no_data_path(dp, ii) ==
    <<"Chunked_">> \o format_int(ii - 1) \o <<".nxs">>

\* tmp_data_path.joinpath(f"Chunked_{data_path}_{ii}.nxs"), as the pieces of the
\* file name; ii is the 1-based position, the name holds the 0-based id
hdf_out_path(dp, ii) ==
    <<"Chunked_", dp, "_">> \o format_int(ii - 1) \o <<".nxs">>

\* the index of an element inside the dense array read for a chunk
Relative(c, idx) ==
    <<idx[1] - c.layer.start, idx[2] - c.width.start, idx[3] - c.height.start,
      idx[4] - c.spectra.start>>

\* hdf[data_path][chunk.layer, chunk.width, chunk.height, chunk.spectra]: a dense
\* array of the chunk's shape, indexed from 0 on every axis
read_view(b, c) ==
    [rel \in (0 .. (c.layer.stop - c.layer.start) - 1)
                \X (0 .. (c.width.stop - c.width.start) - 1)
                \X (0 .. (c.height.stop - c.height.start) - 1)
                \X (0 .. (c.spectra.stop - c.spectra.start) - 1) |->
        Source(b, <<rel[1] + c.layer.start, rel[2] + c.width.start,
                    rel[3] + c.height.start, rel[4] + c.spectra.start>>)]

\* a bug variant: the array is stored at the origin instead of the chunk's region
write_region_at_origin(volume, c, data) ==
    [idx \in DOMAIN volume |-> IF idx \in DOMAIN data THEN data[idx] ELSE volume[idx]]

\* a bug variant: the assignment replaces the whole signal, the fill value outside
\* the chunk's region
write_region_whole(volume, c, data) ==
    [idx \in DOMAIN volume |->
        IF idx \in Region(c) THEN data[Relative(c, idx)] ELSE 0]

\* signal[chunk.layer, chunk.width, chunk.height, chunk.spectra] = data
write_region(volume, c, data) ==
    [idx \in DOMAIN volume |->
        IF idx \in Region(c) THEN data[Relative(c, idx)] ELSE volume[idx]]

\* process_chunk_on_disk returns without a file for an empty layer or spectra range
degenerate(c) == slice_range(c.layer) = {} \/ slice_range(c.spectra) = {}

\* a bug variant: join returns although tasks are unfinished
join_returns_early == TRUE

\* a bug variant: the coordinator waits for an empty queue instead of joining it
join_returns_when_empty == queue = <<>>

\* queue.join() returns when every item put has been marked task_done
join_returns == unfinished = 0

\* the state before process is called, for the given values of --on-disk;
\* --use-subprocesses is read by process_chunks_on_disk only
InitRunWith(on_disk) ==
    /\ bounds \in VolumesUpTo(MaxRunElements)
    /\ args \in {a \in [chunk_count : 1 .. MaxRunChunkMin, max_memory : {None},
                        processors : 1 .. MaxWorkers,
                        on_disk : on_disk, use_subprocesses : BOOLEAN,
                        do_spectra : BOOLEAN, do_images : BOOLEAN] :
                    a.use_subprocesses => a.on_disk}
    /\ pc = "init"
    /\ memory_info = None
    /\ spectra_chunks = <<>>
    /\ image_chunks = <<>>
    /\ grid = NoGrid
    /\ ExecutorIdle

\* process, lines 389-446: the scratch directory is removed and created anew, the
\* chunks are calculated, the two output volumes are created, and vds.h5 gets a
\* virtual dataset for every part that is processed (lines 439-444).  With
\* --no-spectra and --no-images no vds.h5 is written, and opening it (line 447)
\* raises.  The first phase is the first part that is processed (lines 449, 471)
ProcessStart ==
    /\ pc = "init"
    /\ files' = <<>>
    /\ \E r \in {calculate_chunks(args.chunk_count, args.max_memory,
                                 args.processors, bounds)} :
           IF calculate_chunks_raised(r)
           THEN /\ pc' = "raised"
                /\ UNCHANGED <<memory_info, spectra_chunks, image_chunks, out, writers,
                               vds>>
           ELSE /\ spectra_chunks' = r[1]
                /\ image_chunks' = r[2]
                /\ memory_info' = r[3]
                /\ out' = [dp \in DataPaths |-> EmptyVolume(bounds)]
                /\ writers' = [dp \in DataPaths |-> NoWriters(bounds)]
                /\ vds' = {dp \in DataPaths : do_part(dp)}
                /\ pc' = IF args.do_spectra \/ args.do_images THEN "submit" ELSE "raised"
    /\ data_path' = IF args.do_spectra \/ ~args.do_images THEN "spectra" ELSE "images"
    /\ queue' = <<>>
    /\ unfinished' = 0
    /\ workers' = <<>>
    /\ merge_i' = 0
    /\ stop_i' = 0
    /\ failed' = {}
    /\ handed' = <<>>
    /\ UNCHANGED <<bounds, args, grid>>

\* process_chunks_on_disk, lines 284-303, and process_chunks_in_memory, lines
\* 359-360: a new queue, without consumers, and the work items of the chunk list
Submit ==
    /\ pc = "submit"
    /\ queue' = <<>>
    /\ unfinished' = 0
    /\ workers' = <<>>
    /\ handed' = [i \in 1 .. Len(ChunksOf(data_path)) |-> 0]
    /\ pc' = IF ChunksOf(data_path) = <<>> THEN "start" ELSE "put"
    /\ UNCHANGED <<bounds, args, memory_info, spectra_chunks, image_chunks, grid,
                   data_path, files, out, merge_i, failed, writers, vds, stop_i>>

\* process_chunks_on_disk, lines 307-308, and process_chunks_in_memory, lines
\* 368-377: one queue.put of the loop over the chunks, in list order; no consumer
\* is started yet, so the queue holds the items put so far
PutChunk ==
    /\ pc = "put"
    /\ queue' = Append(queue, Len(queue) + 1)
    /\ unfinished' = unfinished + 1
    /\ pc' = IF Len(queue) + 1 >= Len(ChunksOf(data_path)) THEN "start" ELSE "put"
    /\ UNCHANGED <<bounds, args, memory_info, spectra_chunks, image_chunks, grid,
                   data_path, workers, files, out, merge_i, failed, handed, writers,
                   vds, stop_i>>

\* process_chunks_on_disk, lines 310-321, and process_chunks_in_memory, lines
\* 379-384: one Process(...).start() or Thread(...).start() of the loop over
\* range(processes); the consumers started before run meanwhile
StartConsumer ==
    /\ pc = "start"
    /\ workers' = Append(workers, [pc |-> "idle", item |-> STOP])
    /\ pc' = IF Len(workers) + 1 >= args.processors THEN "join" ELSE "start"
    /\ UNCHANGED <<bounds, args, memory_info, spectra_chunks, image_chunks, grid,
                   data_path, queue, unfinished, files, out, merge_i, failed, handed,
                   writers, vds, stop_i>>

\* a bug variant: the consumer reads the head of the queue without removing it
ConsumerGet_peek(w) ==
    /\ w \in DOMAIN workers
    /\ workers[w].pc = "idle"
    /\ queue # <<>>
    /\ queue' = queue
    /\ IF Head(queue) = STOP
       THEN /\ workers' = [workers EXCEPT ![w] = [pc |-> "finished", item |-> STOP]]
            /\ UNCHANGED handed
       ELSE /\ workers' = [workers EXCEPT ![w] = [pc |-> "working", item |-> Head(queue)]]
            /\ handed' = [handed EXCEPT ![Head(queue)] = @ + 1]
    /\ UNCHANGED <<bounds, args, pc, memory_info, spectra_chunks, image_chunks, grid,
                   data_path, unfinished, files, out, merge_i, failed, writers, vds,
                   stop_i>>

\* queue_consumer, line 269: queue.get(); the sentinel ends the loop (line 272)
ConsumerGet(w) ==
    /\ w \in DOMAIN workers
    /\ workers[w].pc = "idle"
    /\ queue # <<>>
    /\ queue' = Tail(queue)
    /\ IF Head(queue) = STOP
       THEN /\ workers' = [workers EXCEPT ![w] = [pc |-> "finished", item |-> STOP]]
            /\ UNCHANGED handed
       ELSE /\ workers' = [workers EXCEPT ![w] = [pc |-> "working", item |-> Head(queue)]]
            /\ handed' = [handed EXCEPT ![Head(queue)] = @ + 1]
    /\ UNCHANGED <<bounds, args, pc, memory_info, spectra_chunks, image_chunks, grid,
                   data_path, unfinished, files, out, merge_i, failed, writers, vds,
                   stop_i>>

\* the chunk function finds what it reads: process_chunk_on_disk returns for a
\* degenerate chunk before it opens vds.h5 (chunking.py 284-285), otherwise both
\* functions read hdf[data_path] (chunking.py 310, 335)
can_read(c) == data_path \in vds \/ (args.on_disk /\ degenerate(c))

\* queue_consumer, line 270: function(args) returns.  function is
\* process_chunk_on_disk (chunking.py 283-320: the chunk's region is read and saved
\* to the item's file, nothing for a degenerate chunk) or process_chunk_in_memory
\* (chunking.py 332-337: the region is copied to the output)
ConsumerFunction(w) ==
    /\ w \in DOMAIN workers
    /\ workers[w].pc = "working"
    /\ LET ii == workers[w].item
           c == ChunksOf(data_path)[ii]
       IN  /\ can_read(c)
           /\ IF args.on_disk
              THEN /\ files' = IF degenerate(c) THEN files
                               ELSE (hdf_out_path(data_path, ii) :> read_view(bounds, c))
                                        @@ files
                   /\ UNCHANGED <<out, writers>>
              ELSE /\ out' = [out EXCEPT
                                ![data_path] = write_region(@, c, read_view(bounds, c))]
                   /\ writers' = [writers EXCEPT ![data_path] =
                                    [idx \in DOMAIN @ |->
                                        IF idx \in Region(c) THEN @[idx] \cup {ii}
                                        ELSE @[idx]]]
                   /\ UNCHANGED files
    /\ workers' = [workers EXCEPT ![w].pc = "task_done"]
    /\ UNCHANGED <<bounds, args, pc, memory_info, spectra_chunks, image_chunks, grid,
                   data_path, queue, unfinished, merge_i, failed, handed, vds, stop_i>>

\* queue_consumer, line 271: queue.task_done(), and the loop calls queue.get() again
ConsumerDone(w) ==
    /\ w \in DOMAIN workers
    /\ workers[w].pc = "task_done"
    /\ unfinished' = unfinished - 1
    /\ workers' = [workers EXCEPT ![w] = [pc |-> "idle", item |-> STOP]]
    /\ UNCHANGED <<bounds, args, pc, memory_info, spectra_chunks, image_chunks, grid,
                   data_path, queue, files, out, merge_i, failed, handed, writers, vds,
                   stop_i>>

\* queue_consumer, line 270: function(args) raises (chunking.py 316-318 prints the
\* chunk and re-raises); nothing catches it, the consumer ends, task_done is not called
ConsumerRaise(w) ==
    /\ w \in DOMAIN workers
    /\ workers[w].pc = "working"
    /\ \/ Cardinality(failed) < MaxFailures
       \/ ~can_read(ChunksOf(data_path)[workers[w].item])
    /\ failed' = failed \cup {<<data_path, workers[w].item>>}
    /\ workers' = [workers EXCEPT ![w].pc = "dead"]
    /\ UNCHANGED <<bounds, args, pc, memory_info, spectra_chunks, image_chunks, grid,
                   data_path, queue, unfinished, files, out, merge_i, handed, writers,
                   vds, stop_i>>

\* what follows a return of process_chunks_*: the images phase after the spectra
\* phase unless --no-images is given (process, lines 460, 480), or the end of process
NextPhase ==
    IF data_path = "spectra" /\ args.do_images
    THEN pc' = "submit" /\ data_path' = "images"
    ELSE pc' = "done" /\ data_path' = data_path

\* process_chunks_on_disk line 323, process_chunks_in_memory line 386: queue.join()
\* returns; in memory the function returns with it
JoinReturn ==
    /\ pc = "join"
    /\ join_returns
    /\ IF args.on_disk
       THEN pc' = "stop" /\ data_path' = data_path /\ stop_i' = 0
       ELSE NextPhase /\ stop_i' = stop_i
    /\ UNCHANGED <<bounds, args, memory_info, spectra_chunks, image_chunks, grid,
                   queue, unfinished, workers, files, out, merge_i, failed, handed,
                   writers, vds>>

\* process_chunks_on_disk, lines 325-327: one iteration of the loop that puts a
\* STOP per consumer, for subprocesses only
PutStop ==
    /\ pc = "stop"
    /\ args.use_subprocesses
    /\ stop_i < args.processors
    /\ queue' = Append(queue, STOP)
    /\ unfinished' = unfinished + 1
    /\ stop_i' = stop_i + 1
    /\ UNCHANGED <<bounds, args, pc, memory_info, spectra_chunks, image_chunks, grid,
                   data_path, workers, files, out, merge_i, failed, handed, writers,
                   vds>>

\* process_chunks_on_disk, lines 325-335: the loop of the sentinels is exhausted, or
\* skipped for threads, and the merge loop begins
PutStopEnd ==
    /\ pc = "stop"
    /\ ~args.use_subprocesses \/ stop_i >= args.processors
    /\ pc' = "merge"
    /\ merge_i' = 1
    /\ UNCHANGED <<bounds, args, memory_info, spectra_chunks, image_chunks, grid,
                   data_path, queue, unfinished, workers, files, out, failed, handed,
                   writers, vds, stop_i>>

\* process_chunks_on_disk, lines 335-347: one iteration of the merge loop
MergeStep ==
    /\ pc = "merge"
    /\ merge_i <= Len(ChunksOf(data_path))
    /\ LET path == hdf_out_path(data_path, merge_i)
           c == ChunksOf(data_path)[merge_i]
       IN  IF path \in DOMAIN files
           THEN /\ out' = [out EXCEPT ![data_path] = write_region(@, c, files[path])]
                /\ writers' = [writers EXCEPT ![data_path] =
                                 [idx \in DOMAIN @ |->
                                     IF idx \in Region(c) THEN @[idx] \cup {merge_i}
                                     ELSE @[idx]]]
           ELSE UNCHANGED <<out, writers>>
    /\ merge_i' = merge_i + 1
    /\ UNCHANGED <<bounds, args, pc, memory_info, spectra_chunks, image_chunks, grid,
                   data_path, queue, unfinished, workers, files, failed, handed, vds,
                   stop_i>>

\* process_chunks_on_disk, line 335: the merge loop is exhausted
MergeEnd ==
    /\ pc = "merge"
    /\ merge_i > Len(ChunksOf(data_path))
    /\ pc' = "final_join"
    /\ UNCHANGED <<bounds, args, memory_info, spectra_chunks, image_chunks, grid,
                   data_path, queue, unfinished, workers, files, out, merge_i, failed,
                   handed, writers, vds, stop_i>>

\* process_chunks_on_disk, line 349: the second queue.join() returns
FinalJoinReturn ==
    /\ pc = "final_join"
    /\ join_returns
    /\ NextPhase
    /\ UNCHANGED <<bounds, args, memory_info, spectra_chunks, image_chunks, grid,
                   queue, unfinished, workers, files, out, merge_i, failed, handed,
                   writers, vds, stop_i>>

\* the run is over or is interrupted, and process is called again with the same
\* arguments: the scratch directory and its files are what the next call finds
\* (process, line 394: os.path.exists(args.tmp_data_path))
Rerun ==
    /\ pc \notin {"init", "raised"}
    /\ args.on_disk
    /\ files # <<>>
    /\ pc' = "init"
    /\ data_path' = "spectra"
    /\ queue' = <<>>
    /\ unfinished' = 0
    /\ workers' = <<>>
    /\ out' = <<>>
    /\ merge_i' = 0
    /\ stop_i' = 0
    /\ failed' = {}
    /\ handed' = <<>>
    /\ writers' = <<>>
    /\ memory_info' = None
    /\ spectra_chunks' = <<>>
    /\ image_chunks' = <<>>
    /\ UNCHANGED <<bounds, args, grid, files, vds>>

\* a step of a consumer
ConsumerStep ==
    \E w \in 1 .. MaxWorkers :
        ConsumerGet(w) \/ ConsumerFunction(w) \/ ConsumerDone(w) \/ ConsumerRaise(w)

\* a step of the coordinator, the caller of process
CoordinatorStep ==
    \/ ProcessStart
    \/ Submit
    \/ PutChunk
    \/ StartConsumer
    \/ JoinReturn
    \/ PutStop
    \/ PutStopEnd
    \/ MergeStep
    \/ MergeEnd
    \/ FinalJoinReturn

Next == CoordinatorStep \/ ConsumerStep \/ Rerun

InitRun == InitRunWith(BOOLEAN)

\* every run of process
Spec == InitRun /\ [][Next]_vars

InitDisk == InitRunWith({TRUE})

\* the runs of process with --on-disk
SpecDisk == InitDisk /\ [][Next]_vars

InitMemory == InitRunWith({FALSE})

NextMemory ==
    \/ ProcessStart
    \/ Submit
    \/ PutChunk
    \/ StartConsumer
    \/ JoinReturn
    \/ ConsumerStep

\* the runs of process without --on-disk
SpecMemory == InitMemory /\ [][NextMemory]_vars

\* the state before process is called with any --max-memory and --processors,
\* valid or not: a ceiling of -1 .. MaxRunCeiling elements or none, -1 ..
\* MaxWorkers workers
InitBudget ==
    /\ bounds \in VolumesUpTo(MaxBudgetElements)
    /\ args \in {a \in [chunk_count : 1 .. MaxBudgetChunkMin,
                        max_memory : {None} \cup {<<4 * g>> : g \in -1 .. MaxRunCeiling},
                        processors : -1 .. MaxWorkers,
                        on_disk : BOOLEAN, use_subprocesses : BOOLEAN,
                        do_spectra : BOOLEAN, do_images : BOOLEAN] :
                    a.use_subprocesses => a.on_disk}
    /\ pc = "init"
    /\ memory_info = None
    /\ spectra_chunks = <<>>
    /\ image_chunks = <<>>
    /\ grid = NoGrid
    /\ ExecutorIdle

\* the runs of process under a memory ceiling, and its calls with an invalid
\* configuration
SpecBudget == InitBudget /\ [][Next]_vars

\* the chunks with an empty layer range or an empty spectra range, for which
\* process_chunk_on_disk returns without a file (chunking.py 284-285)
DegenerateChunks(b) ==
    {ChunkBounds(slice(0, 0), slice(0, b.layer_width), slice(0, b.layer_height),
                 slice(0, b.spectrum_length)),
     ChunkBounds(slice(0, b.layer_count), slice(0, b.layer_width),
                 slice(0, b.layer_height),
                 slice(b.spectrum_length, b.spectrum_length))}

\* the list with d put before position k
InsertAt(chunks, k, d) ==
    SubSeq(chunks, 1, k - 1) \o <<d>> \o SubSeq(chunks, k, Len(chunks))

\* the state at a direct call of process_chunks_on_disk for "spectra", followed by
\* one for "images": the chunk lists are layouts of the planner with a degenerate
\* chunk put at some position, the output volumes are fresh
InitDirect ==
    /\ bounds \in VolumesUpTo(MaxDirectElements)
    /\ args \in [chunk_count : 1 .. MaxDirectChunkMin, max_memory : {None},
                 processors : 1 .. MaxWorkers,
                 on_disk : {TRUE}, use_subprocesses : BOOLEAN,
                 do_spectra : {TRUE}, do_images : {TRUE}]
    /\ \E r \in {calculate_chunks(args.chunk_count, args.max_memory,
                                 args.processors, bounds)} :
           /\ ~calculate_chunks_raised(r)
           /\ memory_info = r[3]
           /\ \E d \in DegenerateChunks(bounds) :
                  /\ \E k \in 1 .. Len(r[1]) + 1 : spectra_chunks = InsertAt(r[1], k, d)
                  /\ image_chunks = InsertAt(r[2], Len(r[2]) + 1, d)
    /\ pc = "submit"
    /\ grid = NoGrid
    /\ data_path = "spectra"
    /\ queue = <<>>
    /\ unfinished = 0
    /\ workers = <<>>
    /\ files = <<>>
    /\ out = [dp \in DataPaths |-> EmptyVolume(bounds)]
    /\ merge_i = 0
    /\ failed = {}
    /\ handed = <<>>
    /\ writers = [dp \in DataPaths |-> NoWriters(bounds)]
    /\ vds = DataPaths
    /\ stop_i = 0

NextDirect ==
    \/ Submit
    \/ PutChunk
    \/ StartConsumer
    \/ JoinReturn
    \/ PutStop
    \/ PutStopEnd
    \/ MergeStep
    \/ MergeEnd
    \/ FinalJoinReturn
    \/ ConsumerStep

\* direct calls of process_chunks_on_disk with chunk lists that hold a degenerate
\* chunk
SpecDirect == InitDirect /\ [][NextDirect]_vars

\* the state before process is called with --on-disk for a volume of more than 10
\* elements, all of them along the layer axis or along the spectrum axis, one chunk
\* requested per element: the ids of the work items run to two digits
InitDiskLong ==
    /\ bounds \in {b \in VolumesUpTo(MaxLongElements) :
                      /\ b.layer_width = 1
                      /\ b.layer_height = 1
                      /\ b.layer_count = 1 \/ b.spectrum_length = 1
                      /\ b.layer_count * b.spectrum_length > 10}
    /\ args \in [chunk_count : {bounds.layer_count * bounds.spectrum_length},
                 max_memory : {None}, processors : 1 .. MaxWorkers,
                 on_disk : {TRUE}, use_subprocesses : BOOLEAN,
                 do_spectra : {TRUE}, do_images : {TRUE}]
    /\ pc = "init"
    /\ memory_info = None
    /\ spectra_chunks = <<>>
    /\ image_chunks = <<>>
    /\ grid = NoGrid
    /\ ExecutorIdle

\* the runs of process with --on-disk and more than 10 chunks per phase
SpecDiskLong == InitDiskLong /\ [][Next]_vars

(***************************************************************************)
(* Properties.                                                             *)
(***************************************************************************)
RECURSIVE SumElementCount(_, _)
\* sum(chunk.element_count for chunk in chunks[:n])
SumElementCount(chunks, n) ==
    IF n = 0 THEN 0 ELSE SumElementCount(chunks, n - 1) + element_count(chunks[n])

RECURSIVE SumRegionSize(_, _)
\* the number of (chunk, index) pairs with the index in the chunk, over chunks[:n]
SumRegionSize(chunks, n) ==
    IF n = 0 THEN 0
    ELSE SumRegionSize(chunks, n - 1) + Cardinality(Region(chunks[n]))

\* the indices that lie in some chunk of a layout
Covered(chunks) == UNION {Region(chunks[i]) : i \in DOMAIN chunks}

\* pairwise distinct as len(set(chunks)) == len(chunks); no index in two chunks as
\* "the chunks' index sets together have as many members as their union"; every
\* index of the volume, and nothing else, in some chunk; the element counts sum up
IsExactPartition(chunks, b) ==
    /\ Cardinality({chunks[i] : i \in DOMAIN chunks}) = Len(chunks)
    /\ SumRegionSize(chunks, Len(chunks)) = Cardinality(Covered(chunks))
    /\ Covered(chunks) = Volume(b)
    /\ SumElementCount(chunks, Len(chunks))
           = b.layer_count * b.layer_width * b.layer_height * b.spectrum_length

\* C1: each of the two layouts calculate_chunks returns is an exact partition of
\* the volume: the chunks are pairwise distinct, no index lies in two chunks, every
\* index lies in some chunk, and the element counts sum to the volume's.
C1_ExactPartition ==
    pc = "planned" =>
        /\ IsExactPartition(spectra_chunks, bounds)
        /\ IsExactPartition(image_chunks, bounds)

\* C1 happens: a ceiling is supplied, both layouts have several chunks, and in each
\* the last slab of some axis is clamped (a chunk smaller than the first)
C1_Witness ==
    /\ pc = "planned"
    /\ args.max_memory # None
    /\ Len(spectra_chunks) >= 4
    /\ Len(image_chunks) >= 4
    /\ \E i \in DOMAIN spectra_chunks :
           element_count(spectra_chunks[i]) < element_count(spectra_chunks[1])
    /\ \E i \in DOMAIN image_chunks :
           element_count(image_chunks[i]) < element_count(image_chunks[1])

\* C2: with a ceiling gb_max supplied, max_chunk_gb * processors <= gb_max, that is
\* total bytes * processors <= gb_max bytes * min_chunk_count.
C2_CeilingRespected ==
    (pc \in {"memory", "planned"} /\ args.max_memory # None) =>
        /\ memory_info.max_chunk_gb.num * args.processors
               <= args.max_memory[1] * memory_info.max_chunk_gb.den
        /\ memory_info.total_gb * args.processors
               <= args.max_memory[1] * memory_info.min_chunk_count

\* C2 happens: the requested count would exceed the ceiling, the workers share the
\* ceiling, and the ceiling does not divide the footprint
C2_Witness ==
    /\ pc = "memory"
    /\ args.max_memory # None
    /\ args.processors >= 2
    /\ args.chunk_count >= 2
    /\ memory_info.min_chunk_count > args.chunk_count
    /\ (memory_info.total_gb * args.processors) % args.max_memory[1] # 0

\* C3: the returned min_chunk_count is at least the requested chunk_count_min, and
\* at least 1, also for requests of 0 and below.
C3_CountAtLeastRequested ==
    pc \in {"memory", "planned"} =>
        /\ memory_info.min_chunk_count >= args.chunk_count
        /\ memory_info.min_chunk_count >= 1

\* C3 happens: once with a request below 1, once with a ceiling that raises the count
C3_Witness ==
    /\ pc = "memory"
    /\ \/ args.chunk_count <= 0 /\ memory_info.min_chunk_count = 1
       \/ /\ args.chunk_count >= 3
          /\ args.max_memory # None
          /\ args.processors >= 2
          /\ memory_info.min_chunk_count > args.chunk_count

\* C10: chunk_image_dimensions returns (1, 1) when chunks_per_image > width * height;
\* otherwise both sizes are >= 1 and
\* (width / width_per_chunk) * (height / height_per_chunk) >= chunks_per_image, that is
\* width * height >= chunks_per_image * width_per_chunk * height_per_chunk.
C10_GridDimensions ==
    pc # "init" =>
        /\ pc = "returned"
        /\ IF grid.chunks_per_image > grid.width * grid.height
           THEN grid.result = <<1, 1>>
           ELSE /\ grid.result[1] >= 1
                /\ grid.result[2] >= 1
                /\ grid.width * grid.height
                       >= grid.chunks_per_image * grid.result[1] * grid.result[2]

\* C10 happens: an undivided narrow axis, and a balanced division into sizes above 1
C10_Witness ==
    /\ pc = "returned"
    /\ grid.chunks_per_image <= grid.width * grid.height
    /\ \/ grid.width < CeilSqrt(grid.chunks_per_image) /\ grid.result[2] >= 2
       \/ grid.result[1] >= 2 /\ grid.result[2] >= 2 /\ grid.chunks_per_image >= 3

\* the output volume of a data_path holds the source's element at every index
RoundTrip(dp) == \A idx \in Volume(bounds) : out[dp][idx] = Source(bounds, idx)

\* no chunk function of the phase raised
NoFailure(dp) == \A f \in failed : f[1] # dp

\* process has called process_chunks_* for the data_path and is past the call
Returned(dp) ==
    /\ do_part(dp)
    /\ \/ pc = "done"
       \/ dp = "spectra" /\ data_path = "images"

\* the merge loop of the data_path's phase has visited every chunk
MergedAll(dp) ==
    \/ Returned(dp)
    \/ data_path = dp /\ pc = "final_join"
    \/ data_path = dp /\ pc = "merge" /\ merge_i > Len(ChunksOf(dp))

\* C4: disk-backed round trip: in a phase in which no worker failed, once the merge
\* loop has visited every chunk, every element of the output volume equals the
\* source's element at the same index.
C4_DiskRoundTrip ==
    \A dp \in DataPaths :
        (args.on_disk /\ MergedAll(dp) /\ NoFailure(dp)) => RoundTrip(dp)

\* C4 happens: two subprocesses have filled several chunk files and the merge loop
\* of the spectra phase has visited them all
C4_Witness ==
    /\ args.on_disk
    /\ args.use_subprocesses
    /\ args.processors >= 2
    /\ data_path = "spectra"
    /\ pc = "final_join"
    /\ Len(spectra_chunks) >= 3
    /\ \E i \in DOMAIN spectra_chunks : element_count(spectra_chunks[i]) >= 2
    /\ failed = {}

\* C5: memory-backed round trip: when process_chunks_in_memory has returned from a
\* phase in which no task failed, the phase's output volume (spectra, images) equals
\* the source element by element.
C5_MemoryRoundTrip ==
    \A dp \in DataPaths :
        (~args.on_disk /\ Returned(dp) /\ NoFailure(dp)) => RoundTrip(dp)

\* C5 happens: both phases have returned, two threads worked, and the two layouts
\* have several chunks and differ
C5_Witness ==
    /\ ~args.on_disk
    /\ pc = "done"
    /\ args.do_spectra
    /\ args.do_images
    /\ args.processors >= 2
    /\ Len(spectra_chunks) >= 3
    /\ Len(image_chunks) >= 3
    /\ spectra_chunks # image_chunks
    /\ failed = {}

\* C6: in memory-backed mode the regions written by two in-flight tasks are
\* disjoint, and no element of an output volume is written by two work items.
C6_DisjointWrites ==
    ~args.on_disk =>
        /\ \A w1, w2 \in DOMAIN workers :
               (w1 # w2 /\ workers[w1].pc = "working" /\ workers[w2].pc = "working") =>
                   Region(ChunksOf(data_path)[workers[w1].item])
                       \cap Region(ChunksOf(data_path)[workers[w2].item]) = {}
        /\ \A dp \in DOMAIN writers : \A idx \in DOMAIN writers[dp] :
               Cardinality(writers[dp][idx]) <= 1

\* C6 happens: two tasks are in flight on chunks of several elements while another
\* chunk has already been written
C6_Witness ==
    /\ ~args.on_disk
    /\ pc = "join"
    /\ \E w1, w2 \in DOMAIN workers :
           /\ w1 # w2
           /\ workers[w1].pc = "working"
           /\ workers[w2].pc = "working"
           /\ element_count(ChunksOf(data_path)[workers[w1].item]) >= 2
           /\ element_count(ChunksOf(data_path)[workers[w2].item]) >= 2
    /\ \E idx \in Volume(bounds) : writers[data_path][idx] # {}

\* a step of the program itself
ProgramStep == CoordinatorStep \/ ConsumerStep

\* C7: every run ends, with a full output or with the failure of a worker: once
\* process is called, the program is never left without a step to take before
\* process has returned or raised (the coordinator never waits forever).
C7_EveryRunEnds == pc \in {"init", "done", "raised"} \/ ENABLED ProgramStep

\* C8: a failing worker aborts that chunk only: once no consumer can take a step,
\* every submitted chunk but the failed ones has been handed to the chunk function,
\* and a failed chunk was handed to it once.
C8_OtherChunksProcessed ==
    (pc = "join" /\ ~ENABLED ConsumerStep) =>
        /\ \A i \in DOMAIN handed : <<data_path, i>> \in failed \/ handed[i] >= 1
        /\ \A i \in DOMAIN handed : <<data_path, i>> \in failed => handed[i] = 1

\* C9: resumability: no step of a run removes or changes a chunk file that is present
\* in the scratch directory, and no consumer is handed a chunk whose file is present.
C9_ResumeKeepsFiles ==
    [][/\ \A path \in DOMAIN files :
              path \in DOMAIN files' /\ files'[path] = files[path]
       /\ \A w \in DOMAIN workers :
              (/\ w \in DOMAIN workers'
               /\ workers[w].pc = "idle"
               /\ workers'[w].pc = "working") =>
                  hdf_out_path(data_path, workers'[w].item) \notin DOMAIN files]_vars

\* the number of elements of a volume: layers * width * height * spectrum_length
max_chunks(b) == b.layer_count * b.layer_width * b.layer_height * b.spectrum_length

\* C11: when the volume has more elements than memory.min_chunk_count, each of the
\* two layouts has at least min_chunk_count chunks and at most as many chunks as
\* the volume has elements.
C11_ChunkCountInRange ==
    (pc = "planned" /\ max_chunks(bounds) > memory_info.min_chunk_count) =>
        /\ Len(spectra_chunks) >= memory_info.min_chunk_count
        /\ Len(image_chunks) >= memory_info.min_chunk_count
        /\ Len(spectra_chunks) <= max_chunks(bounds)
        /\ Len(image_chunks) <= max_chunks(bounds)

\* C11 happens: a ceiling raised the count to several chunks, fewer than there are
\* elements, and the layouts overshoot it by different amounts
C11_Witness ==
    /\ pc = "planned"
    /\ args.max_memory # None
    /\ memory_info.min_chunk_count > args.chunk_count
    /\ memory_info.min_chunk_count >= 3
    /\ max_chunks(bounds) > memory_info.min_chunk_count
    /\ Len(spectra_chunks) > memory_info.min_chunk_count
    /\ Len(image_chunks) # Len(spectra_chunks)

\* C12: when the volume has at most memory.min_chunk_count elements, each of the
\* two layouts has at least layers * min(width, height)^2 * spectrum_length chunks.
C12_ManyChunksRequested ==
    (pc = "planned" /\ max_chunks(bounds) <= memory_info.min_chunk_count) =>
        LET min_max_chunks ==
                bounds.layer_count
                    * Min(bounds.layer_width, bounds.layer_height)
                    * Min(bounds.layer_width, bounds.layer_height)
                    * bounds.spectrum_length
        IN  /\ Len(spectra_chunks) >= min_max_chunks
            /\ Len(image_chunks) >= min_max_chunks

\* C12 happens: more chunks are required than a volume with a 2 x 2 image or
\* larger, several layers or several bins has elements
C12_Witness ==
    /\ pc = "planned"
    /\ max_chunks(bounds) < memory_info.min_chunk_count
    /\ Min(bounds.layer_width, bounds.layer_height) >= 2
    /\ bounds.layer_count * bounds.spectrum_length >= 2
    /\ Len(spectra_chunks) = max_chunks(bounds)

\* the tolerance of the test's comparisons, in gigabytes: 1e-5
tolerance == [num |-> 1, den |-> 100000]

\* size - num / den < tolerance gigabytes, for a size in bytes and a quotient of
\* bytes: (size * den - num) < den * GB * tolerance, the right side taken as its
\* integer part q and its remainder r
ExceedsByLessThanTolerance(size, quotient) ==
    LET d == size * quotient.den - quotient.num
        per_unit == (GB * tolerance.num) \div tolerance.den
        rest == (GB * tolerance.num) % tolerance.den
        q == quotient.den * per_unit + (quotient.den * rest) \div tolerance.den
        r == (quotient.den * rest) % tolerance.den
    IN  d < q \/ (d = q /\ r > 0)

\* C13: the first chunk of the spectra layout and of the image layout has an
\* approximate size that exceeds memory.max_chunk_gb by less than 1e-5 GB.
C13_FirstChunkFits ==
    pc = "planned" =>
        /\ ExceedsByLessThanTolerance(approximate_size_gb(spectra_chunks[1]),
                                      memory_info.max_chunk_gb)
        /\ ExceedsByLessThanTolerance(approximate_size_gb(image_chunks[1]),
                                      memory_info.max_chunk_gb)

\* C13 happens: a volume far larger than the tolerance is cut into several chunks
\* of more than the tolerance each, the first one as large as max_chunk_gb allows
C13_Witness ==
    /\ pc = "planned"
    /\ memory_info.min_chunk_count >= 2
    /\ approximate_size_gb(spectra_chunks[1]) \div 2 > (GB * tolerance.num) \div tolerance.den
    /\ approximate_size_gb(image_chunks[1]) \div 2 > (GB * tolerance.num) \div tolerance.den
    /\ approximate_size_gb(image_chunks[1]) * memory_info.max_chunk_gb.den
           = memory_info.max_chunk_gb.num

\* C13 also happens where the first chunk is larger than max_chunk_gb: more chunks
\* are required than there are elements, and a chunk cannot go below one element
C13_ExceedsWitness ==
    /\ pc = "planned"
    /\ approximate_size_gb(spectra_chunks[1]) * memory_info.max_chunk_gb.den
           > memory_info.max_chunk_gb.num
    /\ approximate_size_gb(image_chunks[1]) * memory_info.max_chunk_gb.den
           > memory_info.max_chunk_gb.num

\* calculate_chunks was called on ScenarioBounds with a requested minimum of 4
\* chunks, no memory ceiling and 1 worker, and has returned
ScenarioPlanned ==
    /\ pc = "planned"
    /\ bounds = ScenarioBounds
    /\ args.chunk_count = 4
    /\ args.max_memory = None
    /\ args.processors = 1

\* every chunk of the list spans the full width, height and spectrum extent
FullImagesAndSpectra(chunks, b) ==
    \A i \in DOMAIN chunks :
        /\ chunks[i].width = slice(0, b.layer_width)
        /\ chunks[i].height = slice(0, b.layer_height)
        /\ chunks[i].spectra = slice(0, b.spectrum_length)

\* the number of chunks of the list that span n layers
CountOfLayerExtent(chunks, n) ==
    Cardinality({i \in DOMAIN chunks : chunks[i].layer.stop - chunks[i].layer.start = n})

\* C14 as stated: in the scenario min_chunk_count is 4 and the 5 layers are cut into
\* 4 chunks of layer extents {2, 1, 1, 1}, each of the full width, height and
\* spectrum extent.
C14_ScenarioFourChunks ==
    ScenarioPlanned =>
        /\ memory_info.min_chunk_count = 4
        /\ \A chunks \in {spectra_chunks, image_chunks} :
               /\ Len(chunks) = 4
               /\ CountOfLayerExtent(chunks, 2) = 1
               /\ CountOfLayerExtent(chunks, 1) = 3
               /\ FullImagesAndSpectra(chunks, bounds)

\* C14 amended: in the scenario min_chunk_count is 4 and the 5 layers are cut into
\* 5 chunks of one layer each, in layer order, each of the full width, height and
\* spectrum extent.
C14_ScenarioFiveChunks ==
    ScenarioPlanned =>
        /\ memory_info.min_chunk_count = 4
        /\ \A chunks \in {spectra_chunks, image_chunks} :
               /\ Len(chunks) = 5
               /\ \A i \in DOMAIN chunks : chunks[i].layer = slice(i - 1, i)
               /\ FullImagesAndSpectra(chunks, bounds)

\* C14 happens: the scenario's call has returned its layouts
C14_Witness ==
    /\ ScenarioPlanned
    /\ spectra_chunks # <<>>
    /\ image_chunks # <<>>

\* the configuration MemoryInfo.calculate rejects
InvalidConfiguration ==
    args.processors < 1 \/ (args.max_memory # None /\ args.max_memory[1] <= 0)

\* C15: a call of process with processors < 1, or with a ceiling gb_max <= 0, raises
\* before a layout is planned and before a chunk is handed to a worker, written to
\* a file or written to an output; with no ceiling and at least one worker the call
\* does not raise and the chunk count is the requested one.
C15_InvalidConfigurationFailsFast ==
    /\ (InvalidConfiguration /\ pc # "init") =>
           /\ pc = "raised"
           /\ memory_info = None
           /\ spectra_chunks = <<>>
           /\ image_chunks = <<>>
           /\ queue = <<>>
           /\ workers = <<>>
           /\ handed = <<>>
           /\ files = <<>>
           /\ out = <<>>
    /\ (args.max_memory = None /\ args.processors >= 1 /\ pc # "init") =>
           /\ memory_info # None
           /\ memory_info.min_chunk_count = args.chunk_count
           /\ pc = "raised" => (~args.do_spectra /\ ~args.do_images)

\* C15 happens: process has raised for a valid worker count and a ceiling of 0
C15_Witness ==
    /\ pc = "raised"
    /\ args.processors >= 1
    /\ args.max_memory = <<0>>

\* C15 also happens for no worker and a valid ceiling, and for no ceiling
C15_WorkersWitness ==
    /\ pc = "raised"
    /\ args.processors = 0
    /\ args.max_memory # None
    /\ args.max_memory[1] > 0

\* C16: MemoryInfo.calculate returns max_chunk_gb <= total_gb: the quotient
\* total_gb / chunk_count has a divisor of at least 1.
C16_MaxChunkAtMostTotal ==
    pc \in {"memory", "planned"} =>
        /\ memory_info.max_chunk_gb.den >= 1
        /\ memory_info.max_chunk_gb.num
               <= memory_info.total_gb * memory_info.max_chunk_gb.den

\* C16 happens: a request below 1 with a ceiling that cuts the volume, so that
\* max_chunk_gb is less than total_gb
C16_Witness ==
    /\ pc = "memory"
    /\ args.chunk_count <= 0
    /\ args.max_memory # None
    /\ memory_info.max_chunk_gb.den >= 2
    /\ memory_info.max_chunk_gb.num
           < memory_info.total_gb * memory_info.max_chunk_gb.den

\* a step of a run in which no chunk function raises
FailureFreeStep ==
    \/ CoordinatorStep
    \/ \E w \in 1 .. MaxWorkers : ConsumerGet(w) \/ ConsumerFunction(w) \/ ConsumerDone(w)

\* the coordinator is inside process_chunks_on_disk
InDiskExecutor ==
    args.on_disk /\ pc \in {"put", "start", "join", "stop", "merge", "final_join"}

\* C17: in a run in which no chunk function raises, process_chunks_on_disk returns
\* to its caller, for threads and for subprocesses: while the coordinator is inside
\* the function, the program always has a step to take that is not a failure (the
\* function is never left waiting forever).
C17_DiskExecutorReturns ==
    (InDiskExecutor /\ failed = {}) => ENABLED FailureFreeStep

\* the consumer holds a work item: it is inside function(args), or function(args)
\* has returned and queue.task_done() is still to be called
InFlight(w) == workers[w].pc \in {"working", "task_done"}

\* C18: in disk-backed mode the merge loop runs only after every submitted chunk's
\* work item has finished: while it runs no consumer is processing a chunk, the queue
\* holds no chunk (sentinels only), every chunk was handed out and is marked done
\* (the only unfinished tasks are the sentinels of the subprocesses), and the file
\* of every chunk that is not degenerate is complete.
C18_MergeAfterAllChunks ==
    (args.on_disk /\ pc = "merge") =>
        /\ \A w \in DOMAIN workers : ~InFlight(w)
        /\ \A k \in DOMAIN queue : queue[k] = STOP
        /\ \A i \in DOMAIN ChunksOf(data_path) :
               /\ handed[i] >= 1
               /\ degenerate(ChunksOf(data_path)[i])
                      \/ hdf_out_path(data_path, i) \in DOMAIN files
        /\ unfinished = IF args.use_subprocesses THEN args.processors ELSE 0

\* C18 happens: the merger is at the first file of several, written by two
\* subprocesses whose sentinels are on the queue
C18_Witness ==
    /\ args.on_disk
    /\ args.use_subprocesses
    /\ args.processors >= 2
    /\ pc = "merge"
    /\ merge_i = 1
    /\ Len(ChunksOf(data_path)) >= 3
    /\ queue # <<>>

\* the coordinator is past the join that follows the last Submit
JoinReturned ==
    \/ pc \in {"stop", "merge", "final_join", "done"}
    \/ pc = "submit" /\ data_path = "images" /\ args.do_spectra

\* the chunk list of the last Submit
SubmittedChunks == IF pc = "submit" THEN spectra_chunks ELSE ChunksOf(data_path)

\* C19: in a failure-free run of either executor no chunk is handed to the chunk
\* function twice, no two workers hold the same chunk, and when the coordinator's
\* join has returned every chunk of the submitted list was handed out exactly once
\* and all of them are marked done.
C19_EachChunkOnce ==
    failed = {} =>
        /\ \A i \in DOMAIN handed : handed[i] <= 1
        /\ \A w1, w2 \in DOMAIN workers :
               (w1 # w2 /\ InFlight(w1) /\ InFlight(w2)) =>
                   workers[w1].item # workers[w2].item
        /\ JoinReturned =>
               /\ DOMAIN handed = DOMAIN SubmittedChunks
               /\ \A i \in DOMAIN handed : handed[i] = 1
               /\ \A k \in DOMAIN queue : queue[k] = STOP
               /\ \A w \in DOMAIN workers : ~InFlight(w)
               /\ unfinished = IF args.on_disk /\ args.use_subprocesses /\ pc # "submit"
                               THEN IF pc = "stop" THEN stop_i ELSE args.processors
                               ELSE 0

\* C19 happens: the join of a phase of several chunks and two workers has returned
C19_Witness ==
    /\ failed = {}
    /\ pc = "stop"
    /\ args.processors >= 2
    /\ Len(SubmittedChunks) >= 3

\* C19 also happens in memory: both phases were joined
C19_MemoryWitness ==
    /\ failed = {}
    /\ ~args.on_disk
    /\ pc = "done"
    /\ args.processors >= 2
    /\ Len(SubmittedChunks) >= 3

RECURSIVE InFlightSize(_)
\* the summed size, in bytes, of the chunks the consumers 1 .. n are processing
InFlightSize(n) ==
    IF n = 0 THEN 0
    ELSE InFlightSize(n - 1)
            + IF workers[n].pc = "working"
              THEN approximate_size_gb(ChunksOf(data_path)[workers[n].item])
              ELSE 0

\* C20: when a ceiling gb_max is supplied and min_chunk_count is at most the
\* number of elements, at most `processors` chunks are in flight, their sizes sum to
\* at most gb_max, and every chunk c of either layout has
\* element_count(c) * min_chunk_count <= element_count(bounds).
C20_MemoryBudget ==
    (/\ args.max_memory # None
     /\ pc \notin {"init", "raised"}
     /\ memory_info.min_chunk_count <= max_chunks(bounds)) =>
        /\ Cardinality({w \in DOMAIN workers : workers[w].pc = "working"})
               <= args.processors
        /\ InFlightSize(Len(workers)) <= args.max_memory[1]
        /\ \A chunks \in {spectra_chunks, image_chunks} : \A i \in DOMAIN chunks :
               element_count(chunks[i]) * memory_info.min_chunk_count
                   <= max_chunks(bounds)

\* C20 happens: the ceiling raised the chunk count, and two workers hold chunks of
\* several elements that together are as large as the ceiling
C20_Witness ==
    /\ args.max_memory # None
    /\ pc = "join"
    /\ memory_info.min_chunk_count > args.chunk_count
    /\ memory_info.min_chunk_count <= max_chunks(bounds)
    /\ \A w \in DOMAIN workers : workers[w].pc = "working"
    /\ Len(workers) >= 2
    /\ InFlightSize(Len(workers)) = args.max_memory[1]
    /\ \E w \in DOMAIN workers : element_count(ChunksOf(data_path)[workers[w].item]) >= 2

\* C21: the merge loop visits the chunks in enumeration order; an iteration on a
\* chunk whose file exists sets exactly the chunk's region of the phase's output
\* volume to the file's payload and changes no other element; an iteration on a
\* chunk whose file is absent raises nothing and leaves the output volumes unchanged.
C21_MergeStepFrame ==
    [][/\ merge_i' # merge_i => (merge_i' = merge_i + 1 \/ merge_i' \in {0, 1})
       /\ (pc = "merge" /\ merge_i' = merge_i + 1) =>
              LET c == ChunksOf(data_path)[merge_i]
                  path == hdf_out_path(data_path, merge_i)
              IN  /\ pc' = "merge"
                  /\ \A dp \in DataPaths : dp # data_path => out'[dp] = out[dp]
                  /\ IF path \in DOMAIN files
                     THEN \A idx \in Volume(bounds) :
                              out'[data_path][idx] =
                                  IF idx \in Region(c)
                                  THEN files[path][Relative(c, idx)]
                                  ELSE out[data_path][idx]
                     ELSE out' = out]_vars

\* C21 happens: the merge loop has passed a degenerate chunk without a file after
\* it copied the file of another chunk, and chunks are still to come
C21_Witness ==
    /\ pc = "merge"
    /\ merge_i <= Len(ChunksOf(data_path))
    /\ \E i, j \in 1 .. merge_i - 1 :
           /\ j < i
           /\ degenerate(ChunksOf(data_path)[i])
           /\ hdf_out_path(data_path, i) \notin DOMAIN files
           /\ hdf_out_path(data_path, j) \in DOMAIN files
           /\ \E idx \in Region(ChunksOf(data_path)[j]) : out[data_path][idx] # 0

\* the work items of a run: a data_path and a position in its chunk list
WorkItems == UNION {{<<dp, i>> : i \in 1 .. Len(ChunksOf(dp))} : dp \in DataPaths}

\* C22: in disk-backed mode no two work items of a run, of the same phase or of the
\* two phases, have the same scratch file path, two consumers never work on the same
\* path, and a consumer that finishes a chunk writes a file that did not exist and
\* leaves every other file as it is.
C22_OwnScratchFile ==
    [][/\ Cardinality({hdf_out_path(a[1], a[2]) : a \in WorkItems})
              = Cardinality(WorkItems)
       /\ \A w1, w2 \in DOMAIN workers :
              (w1 # w2 /\ workers[w1].pc = "working" /\ workers[w2].pc = "working") =>
                  hdf_out_path(data_path, workers[w1].item)
                      # hdf_out_path(data_path, workers[w2].item)
       /\ \A w \in DOMAIN workers :
              (/\ workers[w].pc = "working"
               /\ w \in DOMAIN workers'
               /\ workers'[w].pc = "task_done") =>
                  LET path == hdf_out_path(data_path, workers[w].item)
                  IN  /\ path \notin DOMAIN files
                      /\ DOMAIN files' = DOMAIN files \cup {path}
                      /\ \A other \in DOMAIN files : files'[other] = files[other]]_vars

\* C22 happens: in the images phase a consumer works on a chunk with a two-digit id
\* while the file of the spectra chunk with the same id is in the scratch directory
C22_Witness ==
    /\ args.on_disk
    /\ pc = "join"
    /\ data_path = "images"
    /\ \E w \in DOMAIN workers :
           /\ workers[w].pc = "working"
           /\ workers[w].item > 10
           /\ hdf_out_path("spectra", workers[w].item) \in DOMAIN files
           /\ hdf_out_path("images", workers[w].item - 10) \in DOMAIN files

\* C23: the chunk count MemoryInfo.calculate returns is m = max(1, chunk_count_min)
\* when no ceiling is supplied or (total_gb / m) * processors <= gb_max, and
\* otherwise ceil(total bytes * processors / gb_max bytes), the least count c with
\* c * gb_max >= total * processors; total_gb is 4 bytes per element.  For bounds
\* (1, 50, 50, 1000), a request of 1, 2 workers and a ceiling of 0.0005 GB (rounded
\* to whole bytes either way) the count is above 1.
C23_ChunkCountFormula ==
    pc \in {"memory", "planned"} =>
        LET m == Max(1, args.chunk_count)
            c == memory_info.min_chunk_count
            total == memory_info.total_gb
        IN  /\ total = 4 * max_chunks(bounds)
            /\ IF args.max_memory = None
               THEN c = m
               ELSE IF total * args.processors <= args.max_memory[1] * m
                    THEN c = m
                    ELSE /\ c * args.max_memory[1] >= total * args.processors
                         /\ (c - 1) * args.max_memory[1] < total * args.processors
            /\ (/\ bounds = CeilingScenarioBounds
                /\ args.chunk_count = 1
                /\ args.processors = 2
                /\ args.max_memory \in {<<CeilingScenarioFloor>>,
                                        <<CeilingScenarioFloor + 1>>}) => c > 1

\* the chunks of a list that lie in layer l, as <<width, height, spectra>> slices
ChunksOfLayer(chunks, l) ==
    {<<chunks[i].width, chunks[i].height, chunks[i].spectra>> :
        i \in {j \in DOMAIN chunks : chunks[j].layer = slice(l, l + 1)}}

\* C24: layer granularity.  If the required chunk count c is smaller than the
\* layer count L, every chunk of both layouts spans the full width, height and
\* spectrum and floor(L / c) whole layers, a last slab that ends at L may be shorter.
\* Otherwise every chunk spans exactly one layer, every layer is cut the same way,
\* and into at least ceil(c / L) chunks or, if the layer has fewer elements, into
\* one chunk per element.
C24_LayerGranularity ==
    pc = "planned" =>
        LET c == memory_info.min_chunk_count
            L == bounds.layer_count
        IN  \A chunks \in {spectra_chunks, image_chunks} :
                IF c < L
                THEN /\ FullImagesAndSpectra(chunks, bounds)
                     /\ \A i \in DOMAIN chunks :
                            /\ chunks[i].layer.start % FloorDiv(L, c) = 0
                            /\ chunks[i].layer.stop =
                                   Min(chunks[i].layer.start + FloorDiv(L, c), L)
                ELSE /\ \A i \in DOMAIN chunks :
                            chunks[i].layer.stop = chunks[i].layer.start + 1
                     /\ \A l \in 0 .. L - 1 :
                            /\ ChunksOfLayer(chunks, l) = ChunksOfLayer(chunks, 0)
                            /\ Cardinality(ChunksOfLayer(chunks, l))
                                   >= Min(CeilDiv(c, L),
                                          bounds.layer_width * bounds.layer_height
                                              * bounds.spectrum_length)
                     /\ Len(chunks) = L * Cardinality(ChunksOfLayer(chunks, 0))

\* C24 happens: several layers, each cut into several chunks, for a count that the
\* layer count does not divide
C24_Witness ==
    /\ pc = "planned"
    /\ bounds.layer_count >= 2
    /\ memory_info.min_chunk_count > bounds.layer_count
    /\ memory_info.min_chunk_count % bounds.layer_count # 0
    /\ Cardinality(ChunksOfLayer(spectra_chunks, 1)) >= 3
    /\ Cardinality(ChunksOfLayer(image_chunks, 1)) >= 3

\* C24 also happens with chunks of several layers and a shorter last slab
C24_SlabWitness ==
    /\ pc = "planned"
    /\ memory_info.min_chunk_count >= 2
    /\ bounds.layer_count >= 2 * memory_info.min_chunk_count
    /\ bounds.layer_count % FloorDiv(bounds.layer_count, memory_info.min_chunk_count) # 0

\* every chunk of the list is a slab of the given per-axis sizes: it starts at a
\* multiple of the size and spans the size, or less where the axis ends
HasPerAxisSizes(chunks, b, layers, width, height, spectra) ==
    \A i \in DOMAIN chunks :
        /\ chunks[i].layer.start % layers = 0
        /\ chunks[i].layer.stop = Min(chunks[i].layer.start + layers, b.layer_count)
        /\ chunks[i].width.start % width = 0
        /\ chunks[i].width.stop = Min(chunks[i].width.start + width, b.layer_width)
        /\ chunks[i].height.start % height = 0
        /\ chunks[i].height.stop = Min(chunks[i].height.start + height, b.layer_height)
        /\ chunks[i].spectra.start % spectra = 0
        /\ chunks[i].spectra.stop
               = Min(chunks[i].spectra.start + spectra, b.spectrum_length)

\* C25: the per-axis chunk sizes of the two layouts are those of the formulas, with
\* chunks_per_image and chunks_per_spectrum counted as the chunks a grid or a
\* division of the spectrum has.  Images-then-spectra: the grid is solved from
\* chunks_per_layer, chunks_per_spectrum = ceil(chunks_per_layer / chunks_per_image),
\* spectra_per_chunk = max(1, floor(spectrum_length / chunks_per_spectrum)).
\* Spectra-then-images: spectra_per_chunk = max(1, floor(spectrum_length /
\* chunks_per_layer)), and the grid is solved from
\* chunks_per_image = ceil(chunks_per_layer / chunks_per_spectrum).
C25_PerAxisSizes ==
    pc = "planned" =>
        LET few == memory_info.min_chunk_count < bounds.layer_count
            layers == IF few THEN bounds.layer_count \div memory_info.min_chunk_count
                      ELSE 1
            per_layer == IF few THEN 1
                         ELSE CeilDiv(memory_info.min_chunk_count, bounds.layer_count)
            grid1 == chunk_image_dimensions(bounds.layer_width, bounds.layer_height,
                                            per_layer)
            per_image1 == CeilDiv(bounds.layer_width, grid1[1])
                              * CeilDiv(bounds.layer_height, grid1[2])
            per_spectrum1 == CeilDiv(per_layer, per_image1)
            spectra1 == Max(1, bounds.spectrum_length \div per_spectrum1)
            spectra2 == Max(1, bounds.spectrum_length \div per_layer)
            per_spectrum2 == CeilDiv(bounds.spectrum_length, spectra2)
            per_image2 == CeilDiv(per_layer, per_spectrum2)
            grid2 == chunk_image_dimensions(bounds.layer_width, bounds.layer_height,
                                            per_image2)
        IN  /\ HasPerAxisSizes(spectra_chunks, bounds, layers, grid1[1], grid1[2],
                               spectra1)
            /\ HasPerAxisSizes(image_chunks, bounds, layers, grid2[1], grid2[2],
                               spectra2)

\* C26: every chunk of both layouts has 0 <= start <= stop <= bound on each of the
\* four axes, and none is degenerate: start < stop on all four axes
C26_ChunksWithinBounds ==
    pc = "planned" =>
        \A chunks \in {spectra_chunks, image_chunks} :
            \A i \in DOMAIN chunks :
                /\ 0 <= chunks[i].layer.start
                /\ chunks[i].layer.start < chunks[i].layer.stop
                /\ chunks[i].layer.stop <= bounds.layer_count
                /\ 0 <= chunks[i].width.start
                /\ chunks[i].width.start < chunks[i].width.stop
                /\ chunks[i].width.stop <= bounds.layer_width
                /\ 0 <= chunks[i].height.start
                /\ chunks[i].height.start < chunks[i].height.stop
                /\ chunks[i].height.stop <= bounds.layer_height
                /\ 0 <= chunks[i].spectra.start
                /\ chunks[i].spectra.start < chunks[i].spectra.stop
                /\ chunks[i].spectra.stop <= bounds.spectrum_length
                /\ ~degenerate(chunks[i])

\* C26 happens: the last slab of the spectrum is shorter than the slab before it,
\* so it was clamped to the bound
C26_Witness ==
    /\ pc = "planned"
    /\ \E i, j \in DOMAIN image_chunks :
           /\ image_chunks[j].spectra.stop = bounds.spectrum_length
           /\ image_chunks[i].spectra.stop = image_chunks[j].spectra.start
           /\ image_chunks[j].spectra.stop - image_chunks[j].spectra.start
                  < image_chunks[i].spectra.stop - image_chunks[i].spectra.start

\* the same on the width axis of the other layout
C26_WidthWitness ==
    /\ pc = "planned"
    /\ \E i, j \in DOMAIN spectra_chunks :
           /\ spectra_chunks[j].width.stop = bounds.layer_width
           /\ spectra_chunks[i].width.stop = spectra_chunks[j].width.start
           /\ spectra_chunks[j].width.stop - spectra_chunks[j].width.start
                  < spectra_chunks[i].width.stop - spectra_chunks[i].width.start

\* (layer.start, width.start, height.start, spectra.start) of c comes strictly
\* before that of d in the lexicographic order
StartsBefore(c, d) ==
    \/ c.layer.start < d.layer.start
    \/ /\ c.layer.start = d.layer.start
       /\ \/ c.width.start < d.width.start
          \/ /\ c.width.start = d.width.start
             /\ \/ c.height.start < d.height.start
                \/ /\ c.height.start = d.height.start
                   /\ c.spectra.start < d.spectra.start

\* C27: each layout is listed with the layer axis outermost, then width, then
\* height, then spectra innermost: the list is strictly increasing in the
\* lexicographic order of the four starts, so an index names one chunk of the plan
C27_EnumerationOrder ==
    pc = "planned" =>
        \A chunks \in {spectra_chunks, image_chunks} :
            \A i \in DOMAIN chunks :
                i < Len(chunks) => StartsBefore(chunks[i], chunks[i + 1])

\* C27 happens: a layout in which every one of the four axes is divided
C27_Witness ==
    /\ pc = "planned"
    /\ \E chunks \in {spectra_chunks, image_chunks} :
           /\ \E i \in DOMAIN chunks : chunks[i].layer.start > 0
           /\ \E i \in DOMAIN chunks : chunks[i].width.start > 0
           /\ \E i \in DOMAIN chunks : chunks[i].height.start > 0
           /\ \E i \in DOMAIN chunks : chunks[i].spectra.start > 0

\* C28 as stated: the two layouts of one call have the same number of chunks
C28_SameChunkCount ==
    pc = "planned" => Len(spectra_chunks) = Len(image_chunks)

\* the layer slabs a list of chunks uses
LayerSlabs(chunks) == {chunks[i].layer : i \in DOMAIN chunks}

\* C28, amended: the two layouts are built for the same required chunk count, not
\* to the same length.  They always use the same layer slabs; they have the same
\* number of chunks when the required count is at most the layer count (they are
\* then the same list of whole-layer slabs) and when chunks_per_layer =
\* ceil(count / layer_count) is at least the elements of a layer (every element
\* is then a chunk of its own); in between the two lengths may differ.
C28_SameTargetChunkCount ==
    pc = "planned" =>
        LET per_layer == CeilDiv(memory_info.min_chunk_count, bounds.layer_count)
            layer_elements ==
                bounds.layer_width * bounds.layer_height * bounds.spectrum_length
        IN  /\ LayerSlabs(spectra_chunks) = LayerSlabs(image_chunks)
            /\ memory_info.min_chunk_count <= bounds.layer_count
                   => spectra_chunks = image_chunks
            /\ memory_info.min_chunk_count >= bounds.layer_count
                       /\ per_layer >= layer_elements
                   => /\ Len(spectra_chunks) = bounds.layer_count * layer_elements
                      /\ Len(image_chunks) = bounds.layer_count * layer_elements

\* C28 happens: a required count of at least 2 and at most the layer count, and a
\* volume whose layers have both several pixels and several bins
C28_Witness ==
    /\ pc = "planned"
    /\ memory_info.min_chunk_count >= 2
    /\ memory_info.min_chunk_count <= bounds.layer_count
    /\ bounds.layer_width * bounds.layer_height >= 2
    /\ bounds.spectrum_length >= 2
    /\ Len(spectra_chunks) >= 2

\* the amended statement's other case: every element of a layer of several
\* elements is a chunk of its own in both layouts
C28_ElementsWitness ==
    /\ pc = "planned"
    /\ bounds.layer_width * bounds.layer_height >= 2
    /\ bounds.spectrum_length >= 2
    /\ Len(spectra_chunks) = Cardinality(Volume(bounds))
    /\ Len(image_chunks) = Cardinality(Volume(bounds))

\* the lengths differ: the case the original statement excludes
C28_DifferWitness ==
    /\ pc = "planned"
    /\ Len(spectra_chunks) > Len(image_chunks)

\* the chunks per layer that calculate_chunks hands to both strategies
PlannedChunksPerLayer ==
    IF memory_info.min_chunk_count < bounds.layer_count THEN 1
    ELSE CeilDiv(memory_info.min_chunk_count, bounds.layer_count)

\* C29: each layout keeps its hot axis whole while the other axes can absorb the
\* division.  With chunks_per_layer <= width * height every chunk of the
\* images-then-spectra layout spans the spectrum [0, spectrum_length); with
\* chunks_per_layer <= spectrum_length every chunk of the spectra-then-images
\* layout spans the image [0, width) x [0, height).
C29_HotAxisWhole ==
    pc = "planned" =>
        /\ PlannedChunksPerLayer <= bounds.layer_width * bounds.layer_height
               => \A i \in DOMAIN spectra_chunks :
                      spectra_chunks[i].spectra = slice(0, bounds.spectrum_length)
        /\ PlannedChunksPerLayer <= bounds.spectrum_length
               => \A i \in DOMAIN image_chunks :
                      /\ image_chunks[i].width = slice(0, bounds.layer_width)
                      /\ image_chunks[i].height = slice(0, bounds.layer_height)

\* C30: no assertion of chunk_image_dimensions fails.  For width, height >= 1 and
\* 1 <= chunks_per_image <= width * height, with dim = ceil(sqrt(chunks_per_image)),
\* at most one of width < dim and height < dim holds, and an axis smaller than dim
\* has the other axis strictly larger than it and >= dim; the call never raises.
C30_NoAssertionFails ==
    /\ pc # "raised"
    /\ pc = "returned" => grid.result # AssertionError
    /\ (grid.width >= 1 /\ grid.height >= 1 /\ grid.chunks_per_image >= 1
           /\ grid.chunks_per_image <= grid.width * grid.height) =>
           LET dim == CeilSqrt(grid.chunks_per_image)
           IN  /\ ~(grid.width < dim /\ grid.height < dim)
               /\ grid.width < dim => grid.height > grid.width /\ grid.height >= dim
               /\ grid.height < dim => grid.width > grid.height /\ grid.width >= dim

\* C30 happens: a call has returned from the branch of a height smaller than dim,
\* and the height is not 1
C30_Witness ==
    /\ pc = "returned"
    /\ grid.chunks_per_image <= grid.width * grid.height
    /\ grid.height >= 2
    /\ grid.height < CeilSqrt(grid.chunks_per_image)
    /\ grid.result[2] = 1

====
